---- MODULE Spec2Model ----
(***************************************************************************)
(* The useDataStream hook (src/unnamed/part_002) and the data worker       *)
(* (src/app/src/workers/data.worker.ts, lines 1-233) as one state machine. *)
(* The client and the worker are two single-threaded event loops joined by *)
(* two FIFO message channels.  A client step is one macrotask: an API call *)
(* up to its first await, or the delivery of one worker message together   *)
(* with every promise continuation it releases.  A worker step is one      *)
(* message handler or one setTimeout callback.                             *)
(***************************************************************************)
EXTENDS Integers, Sequences, FiniteSets, TLC

(***************************************************************************)
(* Bounds of the model.                                                    *)
(***************************************************************************)
\* API calls the environment (the UI) makes in one run.
MaxCalls == 6
\* The same, and the engine (wasm) calls that throw, in a run with faults.
MaxFaultyCalls == 5
MaxFaults == 1
\* Client operations that may be suspended on an await at the same time.
MaxTasks == 2
\* API calls in a run in which the caller of the hook follows no discipline.
MaxAnyCalls == 3
\* API calls, and the reads of Date.now() that find the clock on the
\* millisecond of the read before, in a run in which the clock may stand.
MaxClockCalls == 5
MaxStalls == 1
\* API calls in a run in which the UI also starts find-and-replace jobs.
MaxFindCalls == 5
\* The same in a run in which the caller follows no discipline.
MaxAnyFindCalls == 2
\* API calls in a run whose scheduling is fair.
MaxLiveCalls == 5

\* START_VALIDATION's chunkSize (50000 in the source), scaled to the fixture.
chunkSize == 2
\* FIND_REPLACE_ALL's CHUNK (50000 in the source), scaled to the fixture.
CHUNK == 2

(***************************************************************************)
(* The fixture: the one CSV file the environment loads.  load_dataset      *)
(* yields its rows and the detected schema.                                *)
(***************************************************************************)
FileSchema ==
    << [name |-> "a", detected_type |-> "Integer"],
       [name |-> "b", detected_type |-> "Text"] >>
FileRows == << <<"x", "1">>, <<"1", "x">>, <<"x", "1">> >>

ColumnType == {"Text", "Integer"}
\* The windows (start, limit) the UI asks fetchRows for.
FetchWindows == {<< 0, 1 >>, << 1, 1 >>, << 0, 3 >>}
\* The cell edits (rowIdx, colIdx, value) the user makes.
CellEdits == {<< 0, 0, "1" >>, << 1, 0, "x" >>}
Cols == 0 .. (Len(FileSchema) - 1)
RowIdx == 0 .. (Len(FileRows) - 1)
TaskIds == 1 .. MaxTasks

\* A Map with no entries / an Array with no elements.
EmptyMap == << >>

MapDelete(m, k) == [x \in (DOMAIN m) \ {k} |-> m[x]]
MapDeleteAll(m, ks) == [x \in (DOMAIN m) \ ks |-> m[x]]
MapSet(m, k, v) == [x \in (DOMAIN m) \cup {k} |-> IF x = k THEN v ELSE m[x]]
\* Every entry of n set in m (Map.forEach((v, k) => m.set(k, v))).
MapSetAll(m, n) ==
    [x \in (DOMAIN m) \cup (DOMAIN n) |-> IF x \in DOMAIN n THEN n[x] ELSE m[x]]

Min(a, b) == IF a < b THEN a ELSE b

VARIABLES
    \* ---- hook state (useState) ----
    isReady, stage, schema, initialSchema, rowCount, errors,
    pendingValidation, isLoadingFile, dataVersion,
    \* ---- hook refs (useRef) ----
    pendingRequests, rowCache, inflightChunks, isBatchValidating,
    \* ---- suspended async operations of the hook ----
    tasks,
    \* ---- the two channels ----
    toWorker, toClient,
    \* ---- worker globals ----
    isWasmReady, totalRows, validationJob, timers,
    \* ---- the worker's find-and-replace jobs (closures of doChunk) ----
    findReplace,
    \* ---- engine (wasm) state ----
    engRows, engSchema,
    \* ---- environment budgets and observation ----
    ui, calls, faults, chunkCalls, passSignals, vcSent, lastOp,
    \* ---- the client's clock (Date.now()) ----
    clock

hookVars == << isReady, stage, schema, initialSchema, rowCount, errors,
               pendingValidation, isLoadingFile, dataVersion,
               pendingRequests, rowCache, inflightChunks, isBatchValidating,
               tasks, vcSent, clock >>
workerVars == << isWasmReady, totalRows, validationJob, timers, findReplace,
                 engRows, engSchema, faults, chunkCalls, passSignals >>
vars == << hookVars, workerVars, toWorker, toClient, ui, calls, lastOp >>

(***************************************************************************)
(* The engine: localzero_core (wasm).  Its call contract is spec.md        *)
(* section 6; only its TypeScript callers are part of the sources.         *)
(***************************************************************************)
\* A cell is valid for Text whatever it holds; "x" is the malformed value.
Valid(type, v) == type = "Text" \/ v # "x"

\* load_dataset(bytes) -> {row_count, schema}
load_dataset_rows == [r \in RowIdx |-> [c \in Cols |-> FileRows[r + 1][c + 1]]]
load_dataset_summary == [row_count |-> Len(FileRows), schema |-> FileSchema]

\* get_rows(start, limit): the rows of [start, start+limit) that exist, each
\* a record keyed by column name.
KeyedRow(rows, sch, r) ==
    [n \in {sch[k].name : k \in DOMAIN sch} |->
        LET k == CHOOSE k \in DOMAIN sch : sch[k].name = n IN rows[r][k - 1]]
get_rows(rows, sch, start, limit) ==
    LET n == Cardinality(DOMAIN rows)
        hi == Min(start + limit, n)
    IN  [i \in 1 .. (IF hi > start THEN hi - start ELSE 0) |->
            KeyedRow(rows, sch, start + i - 1)]

\* validate_column(col, type) -> the invalid row indices of the column.
validate_column(rows, col, type) ==
    {r \in DOMAIN rows : ~Valid(type, rows[r][col])}

\* validate_chunk(start, count) -> the (row, col) violations of the rows of
\* [start, start+count) that exist, under the engine's schema.
validate_chunk(rows, sch, start, count) ==
    {p \in (DOMAIN rows) \X Cols :
        /\ p[1] >= start /\ p[1] < start + count
        /\ p[2] + 1 \in DOMAIN sch
        /\ ~Valid(sch[p[2] + 1].detected_type, rows[p[1]][p[2]])}

\* apply_correction(col, "clear"): every malformed cell of the column is
\* emptied.
apply_correction(rows, col) ==
    [r \in DOMAIN rows |->
        [c \in Cols |-> IF c = col /\ rows[r][c] = "x" THEN "" ELSE rows[r][c]]]

\* apply_suggestion(col, suggestion): every malformed cell of the column is
\* normalised to a well-formed value.
apply_suggestion(rows, col) ==
    [r \in DOMAIN rows |->
        [c \in Cols |-> IF c = col /\ rows[r][c] = "x" THEN "1" ELSE rows[r][c]]]

\* update_cell(row, col, value)
update_cell(rows, row, col, value) ==
    [rows EXCEPT ![row] = [@ EXCEPT ![col] = value]]

(***************************************************************************)
(* Messages.  A correlation id is the string the hook builds from a prefix,*)
(* the call's arguments and Date.now().                                    *)
(***************************************************************************)
RequestId(prefix, a, b, t) == [k |-> prefix, a |-> a, b |-> b, ts |-> t]
NoId == [k |-> "none", a |-> 0, b |-> 0, ts |-> 0]

Reply(type, id, payload) == [type |-> type, id |-> id, payload |-> payload]
\* self.postMessage({ type: 'ERROR', payload: String(err) }): no id in it.
ErrorNoId == [type |-> "ERROR", id |-> NoId, payload |-> [id |-> NoId]]
\* self.postMessage({ type: 'ERROR', payload: { id, error: String(err) } })
ErrorWithId(id) == [type |-> "ERROR", id |-> NoId, payload |-> [id |-> id]]

NoJob == [active |-> FALSE, currentStart |-> 0, chunkSize |-> 0]

\* The worker rebuilds a Map col -> Set(row) from validate_chunk's flat list.
ErrorsOfFlatList(list) ==
    [c \in {p[2] : p \in list} |-> {p[1] : p \in {q \in list : q[2] = c}}]

(***************************************************************************)
(* The worker (data.worker.ts).                                            *)
(***************************************************************************)
\* An engine call may throw while the fault budget lasts.
MayThrow(throws) == throws => faults > 0
CountFault(throws) == faults' = IF throws THEN faults - 1 ELSE faults

\* A variant of processValidationChunk that schedules the next chunk only
\* when a whole chunk remains.
processValidationChunkStopsEarly(job, throws, caught, tm, cc, ps) ==
    IF ~job.active
    THEN /\ validationJob' = job
         /\ UNCHANGED toClient
         /\ timers' = tm /\ chunkCalls' = cc /\ passSignals' = ps
    ELSE LET list == validate_chunk(engRows, engSchema, job.currentStart, job.chunkSize)
             errs == ErrorsOfFlatList(list)
             upd  == IF DOMAIN errs # {}
                     THEN << Reply("VALIDATION_UPDATE", NoId, errs) >> ELSE << >>
             next == job.currentStart + job.chunkSize
         IN  /\ chunkCalls' = Append(cc, << job.currentStart, job.chunkSize >>)
             /\ IF throws
                THEN /\ validationJob' = job
                     /\ toClient' = IF caught THEN Append(toClient, ErrorNoId) ELSE toClient
                     /\ timers' = tm /\ passSignals' = ps
                ELSE IF next + job.chunkSize < totalRows
                THEN /\ validationJob' = [job EXCEPT !.currentStart = next]
                     /\ timers' = tm + 1
                     /\ toClient' = toClient \o upd
                     /\ passSignals' = ps
                ELSE /\ validationJob' = NoJob
                     /\ toClient' = (toClient \o upd)
                                        \o << Reply("VALIDATION_COMPLETE", NoId, 0) >>
                     /\ passSignals' = ps + 1
                     /\ timers' = tm

\* processValidationChunk() on the job `job`; `caught` tells whether an
\* exception of validate_chunk reaches self.onmessage's catch (the call from
\* START_VALIDATION) or is lost (the setTimeout callback).  tm, cc and ps are
\* the pending timers, the observed calls and the observed completion
\* signals before the call.
processValidationChunk(job, throws, caught, tm, cc, ps) ==
    IF ~job.active
    THEN /\ validationJob' = job
         /\ UNCHANGED toClient
         /\ timers' = tm /\ chunkCalls' = cc /\ passSignals' = ps
    ELSE LET list == validate_chunk(engRows, engSchema, job.currentStart, job.chunkSize)
             errs == ErrorsOfFlatList(list)
             upd  == IF DOMAIN errs # {}
                     THEN << Reply("VALIDATION_UPDATE", NoId, errs) >> ELSE << >>
             next == job.currentStart + job.chunkSize
         IN  /\ chunkCalls' = Append(cc, << job.currentStart, job.chunkSize >>)
             /\ IF throws
                THEN /\ validationJob' = job
                     /\ toClient' = IF caught THEN Append(toClient, ErrorNoId) ELSE toClient
                     /\ timers' = tm /\ passSignals' = ps
                ELSE IF next < totalRows
                THEN /\ validationJob' = [job EXCEPT !.currentStart = next]
                     /\ timers' = tm + 1
                     /\ toClient' = toClient \o upd
                     /\ passSignals' = ps
                ELSE /\ validationJob' = NoJob
                     /\ toClient' = (toClient \o upd)
                                        \o << Reply("VALIDATION_COMPLETE", NoId, 0) >>
                     /\ passSignals' = ps + 1
                     /\ timers' = tm

WorkerHead(type) == toWorker # << >> /\ Head(toWorker).type = type
WorkerTake == toWorker' = Tail(toWorker)
clientSide == << hookVars, ui, calls, lastOp >>

WorkerInit ==
    /\ WorkerHead("INIT")
    /\ WorkerTake
    /\ isWasmReady' = TRUE
    /\ toClient' = Append(toClient, Reply("INIT_COMPLETE", NoId, 0))
    /\ UNCHANGED << clientSide, findReplace, totalRows, validationJob, timers, engRows,
                    engSchema, faults, chunkCalls, passSignals >>

WorkerLoadFile ==
    /\ WorkerHead("LOAD_FILE")
    /\ WorkerTake
    /\ isWasmReady' = TRUE
    /\ \E throws \in BOOLEAN :
        /\ MayThrow(throws)
        /\ CountFault(throws)
        /\ IF throws
           THEN /\ toClient' = Append(toClient, ErrorNoId)
                /\ UNCHANGED << engRows, engSchema, totalRows >>
           ELSE /\ engRows' = load_dataset_rows
                /\ engSchema' = load_dataset_summary.schema
                /\ totalRows' = load_dataset_summary.row_count
                /\ toClient' = Append(toClient,
                                   Reply("LOAD_COMPLETE", NoId, load_dataset_summary))
    /\ UNCHANGED << clientSide, findReplace, validationJob, timers, chunkCalls, passSignals >>

WorkerUpdateSchema ==
    /\ WorkerHead("UPDATE_SCHEMA")
    /\ WorkerTake
    /\ isWasmReady' = TRUE
    /\ engSchema' = Head(toWorker).payload
    /\ UNCHANGED << clientSide, findReplace, toClient, totalRows, validationJob, timers,
                    engRows, faults, chunkCalls, passSignals >>

WorkerStartValidation ==
    /\ WorkerHead("START_VALIDATION")
    /\ WorkerTake
    /\ isWasmReady' = TRUE
    /\ \E throws \in BOOLEAN :
        /\ MayThrow(throws)
        /\ CountFault(throws)
        /\ LET job == [active |-> TRUE, currentStart |-> 0, chunkSize |-> chunkSize]
           IN  processValidationChunk(job, throws, TRUE, timers, << >>, 0)
    /\ UNCHANGED << clientSide, findReplace, totalRows, engRows, engSchema >>

\* setTimeout(processValidationChunk, 0) firing.
WorkerTimer ==
    /\ timers > 0
    /\ \E throws \in BOOLEAN :
        /\ MayThrow(throws) /\ (throws => validationJob.active)
        /\ CountFault(throws)
        /\ processValidationChunk(validationJob, throws, FALSE, timers - 1,
                                  chunkCalls, passSignals)
    /\ UNCHANGED << clientSide, findReplace, toWorker, isWasmReady, totalRows, engRows, engSchema >>

\* A correlated request whose engine call throws inside self.onmessage's
\* try block: the catch posts an ERROR that carries no id.
WorkerCorrelated(type, throws, reply, rows) ==
    /\ WorkerHead(type)
    /\ WorkerTake
    /\ isWasmReady' = TRUE
    /\ MayThrow(throws)
    /\ CountFault(throws)
    /\ toClient' = Append(toClient, reply)
    /\ engRows' = IF throws THEN engRows ELSE rows
    /\ UNCHANGED << clientSide, findReplace, totalRows, validationJob, timers, engSchema,
                    chunkCalls, passSignals >>

\* A variant of WorkerGetRows in which the request is taken up only once
\* the validation job has ended.
WorkerGetRowsAfterPass ==
    /\ ~validationJob.active
    /\ \E throws \in BOOLEAN :
        LET m == Head(toWorker) IN
        WorkerCorrelated("GET_ROWS", throws,
            IF throws THEN ErrorNoId
            ELSE Reply("GET_ROWS_COMPLETE", m.id,
                       get_rows(engRows, engSchema, m.start, m.limit)),
            engRows)

WorkerGetRows ==
    \E throws \in BOOLEAN :
        LET m == Head(toWorker) IN
        WorkerCorrelated("GET_ROWS", throws,
            IF throws THEN ErrorNoId
            ELSE Reply("GET_ROWS_COMPLETE", m.id,
                       get_rows(engRows, engSchema, m.start, m.limit)),
            engRows)

WorkerValidateColumn ==
    \E throws \in BOOLEAN :
        LET m == Head(toWorker) IN
        WorkerCorrelated("VALIDATE_COLUMN", throws,
            IF throws THEN ErrorNoId
            ELSE Reply("VALIDATE_COLUMN_COMPLETE", m.id,
                       validate_column(engRows, m.colIdx, m.newType)),
            engRows)

WorkerApplyCorrection ==
    \E throws \in BOOLEAN :
        LET m == Head(toWorker)
            after == apply_correction(engRows, m.colIdx)
        IN  WorkerCorrelated("APPLY_CORRECTION", throws,
                IF throws THEN ErrorNoId
                ELSE Reply("CORRECTION_COMPLETE", m.id,
                           Cardinality({r \in DOMAIN engRows : after[r] # engRows[r]})),
                after)

\* get_suggestions has a try/catch of its own: its ERROR carries the id.
WorkerGetSuggestions ==
    \E throws \in BOOLEAN :
        LET m == Head(toWorker) IN
        WorkerCorrelated("GET_SUGGESTIONS", throws,
            IF throws THEN ErrorWithId(m.id)
            ELSE Reply("GET_SUGGESTIONS_COMPLETE", m.id,
                       IF \E r \in DOMAIN engRows : engRows[r][m.colIdx] = "x"
                       THEN << "DigitsOnly" >> ELSE << >>),
            engRows)

WorkerApplySuggestion ==
    \E throws \in BOOLEAN :
        LET m == Head(toWorker)
            after == apply_suggestion(engRows, m.colIdx)
        IN  WorkerCorrelated("APPLY_SUGGESTION", throws,
                IF throws THEN ErrorNoId
                ELSE Reply("SUGGESTION_COMPLETE", m.id,
                           Cardinality({r \in DOMAIN engRows : after[r] # engRows[r]})),
                after)

\* update_cell has a try/catch of its own: its ERROR carries the id.
WorkerUpdateCell ==
    \E throws \in BOOLEAN :
        LET m == Head(toWorker) IN
        WorkerCorrelated("UPDATE_CELL", throws,
            IF throws THEN ErrorWithId(m.id)
            ELSE Reply("UPDATE_CELL_COMPLETE", m.id, TRUE),
            IF m.rowIdx \in DOMAIN engRows
            THEN update_cell(engRows, m.rowIdx, m.colIdx, m.value) ELSE engRows)

(***************************************************************************)
(* The hook (useDataStream).  A client macrotask is a chain of handler and *)
(* continuation code, so each piece of the source is a function from the   *)
(* hook's state to the hook's state; an action applies a chain and commits *)
(* the result.  `out` collects the messages posted to the worker and       *)
(* `ended` the operations whose promise settled during the macrotask.      *)
(***************************************************************************)
H == [isReady |-> isReady, stage |-> stage, schema |-> schema,
      initialSchema |-> initialSchema, rowCount |-> rowCount, errors |-> errors,
      pendingValidation |-> pendingValidation, isLoadingFile |-> isLoadingFile,
      dataVersion |-> dataVersion, pendingRequests |-> pendingRequests,
      rowCache |-> rowCache, inflightChunks |-> inflightChunks,
      isBatchValidating |-> isBatchValidating, tasks |-> tasks,
      vcSent |-> vcSent, clock |-> clock, out |-> << >>, ended |-> {}]

NoRange == [start |-> 0, limit |-> 0]
\* An operation that is not suspended: its slot is free.
IdleTask == [op |-> "idle", pc |-> "", a |-> 0, b |-> 0, schema |-> << >>, cur |-> 0,
             colIndices |-> << >>, cols |-> << >>, results |-> EmptyMap,
             ranges |-> << >>, range |-> NoRange, result |-> EmptyMap,
             cached |-> {}]

\* `cached` observes the row indices that were cached when it was called.
Ended(op, a, b, outcome, cached) ==
    [op |-> op, a |-> a, b |-> b, outcome |-> outcome, cached |-> cached]

\* The promise of the operation in slot t settles: "ok" when it ran to its
\* end, "caught" when it caught an error and returned, "failed" when it threw.
End(h, t, outcome) ==
    [h EXCEPT !.tasks[t] = IdleTask,
              !.ended = @ \cup {Ended(h.tasks[t].op, h.tasks[t].a, h.tasks[t].b, outcome,
                                       h.tasks[t].cached)}]

\* new Promise(...): pendingRequests.set(requestId, ...); postMessage(msg)
Request(h, t, id, msg) ==
    [h EXCEPT !.pendingRequests = MapSet(@, id, t), !.out = Append(@, msg)]

\* The elements of a finite set of numbers in increasing order.
SortedSeq(S) ==
    CHOOSE q \in [1 .. Cardinality(S) -> S] :
        \A i, j \in 1 .. Cardinality(S) : i < j => q[i] < q[j]
SeqSet(q) == {q[i] : i \in DOMAIN q}

\* A JavaScript Set keeps insertion order: add() of a present element keeps
\* its place, delete() closes the gap.
SetAdd(q, x) == IF x \in SeqSet(q) THEN q ELSE Append(q, x)
SetDelete(q, x) == SelectSeq(q, LAMBDA y : y # x)

(***************************************************************************)
(* Mutations' tails, validateColumnsSafe and runBatchValidation.           *)
(***************************************************************************)
\* A variant of AfterValidate in which no mutation touches the row cache.
AfterValidateKeepsCache(h, t) ==
    LET op == h.tasks[t].op
        h1 == IF op = "runBatchValidation"
              THEN [h EXCEPT !.pendingValidation = << >>]
              ELSE IF op \in {"applyCorrection", "applySuggestion"}
              THEN [h EXCEPT !.pendingValidation = SetDelete(@, h.tasks[t].a),
                             !.dataVersion = @ + 1]
              ELSE [h EXCEPT !.dataVersion = @ + 1]
    IN  End(h1, t, "ok")

\* What the caller of validateColumnsSafe does once it has returned.
AfterValidate(h, t) ==
    LET op == h.tasks[t].op
        h1 == IF op = "runBatchValidation"
              THEN [h EXCEPT !.pendingValidation = << >>]
              ELSE IF op \in {"applyCorrection", "applySuggestion"}
              THEN [h EXCEPT !.pendingValidation = SetDelete(@, h.tasks[t].a),
                             !.rowCache = EmptyMap,
                             !.dataVersion = @ + 1]
              ELSE \* updateCell(rowIdx = a, colIdx = b)
                   [h EXCEPT !.rowCache = MapDelete(@, h.tasks[t].a),
                             !.dataVersion = @ + 1]
    IN  End(h1, t, "ok")

\* A variant of ValidateFinish that makes the results of the batch the whole
\* Error Map.
ValidateFinishResets(h, t) ==
    LET tk == h.tasks[t]
        h1 == [h EXCEPT !.errors = tk.results,
                        !.isBatchValidating = FALSE]
    IN  AfterValidate(h1, t)

\* A variant of ValidateFinish that writes the results of the batch without
\* first deleting the entries of the requested columns.
ValidateFinishKeepsOld(h, t) ==
    LET tk == h.tasks[t]
        h1 == [h EXCEPT !.errors = MapSetAll(@, tk.results),
                        !.isBatchValidating = FALSE]
    IN  AfterValidate(h1, t)

\* The end of validateColumnsSafe: one setErrors for the whole batch, then
\* the finally block.
ValidateFinish(h, t) ==
    LET tk == h.tasks[t]
        h1 == [h EXCEPT !.errors = MapSetAll(MapDeleteAll(@, SeqSet(tk.colIndices)),
                                             tk.results),
                        !.isBatchValidating = FALSE]
    IN  AfterValidate(h1, t)

\* The for loop of validateColumnsSafe from the next column on: up to the
\* next await, or to the end.
ValidateLoop(h, t) ==
    LET tk == h.tasks[t] IN
    IF tk.cols = << >>
    THEN ValidateFinish(h, t)
    ELSE LET colIdx == Head(tk.cols)
             id == RequestId("val", colIdx, 0, t)
             h1 == [h EXCEPT !.tasks[t].cols = Tail(tk.cols),
                             !.tasks[t].pc = "validate",
                             !.tasks[t].cur = colIdx,
                             !.vcSent[colIdx] = @ + 1]
         IN  Request(h1, t, id,
                     [type |-> "VALIDATE_COLUMN", colIdx |-> colIdx,
                      newType |-> tk.schema[colIdx + 1].detected_type, id |-> id])

\* A variant of validateColumnsSafe without the single-flight latch check.
validateColumnsUnlatched(h, t, colIndices) ==
    LET sch == h.tasks[t].schema
        h1 == [h EXCEPT !.isBatchValidating = TRUE,
                        !.tasks[t].colIndices = colIndices,
                        !.tasks[t].cols =
                            SelectSeq(colIndices, LAMBDA c : c + 1 \in DOMAIN sch),
                        !.tasks[t].results = EmptyMap]
    IN  ValidateLoop(h1, t)

\* validateColumnsSafe(colIndices) called by the operation in slot t.
validateColumnsSafe(h, t, colIndices) ==
    IF h.isBatchValidating
    THEN AfterValidate(h, t)
    ELSE LET sch == h.tasks[t].schema
             h1 == [h EXCEPT !.isBatchValidating = TRUE,
                             !.vcSent = [c \in Cols |-> 0],
                             !.tasks[t].colIndices = colIndices,
                             \* `if (!col) continue`
                             !.tasks[t].cols =
                                 SelectSeq(colIndices, LAMBDA c : c + 1 \in DOMAIN sch),
                             !.tasks[t].results = EmptyMap]
         IN  ValidateLoop(h1, t)

\* A variant of ValidateSettled that writes each column's result to the
\* Error Map as soon as it arrives.
ValidateSettledEager(h, t, resolved, invalidRowIndices) ==
    LET colIdx == h.tasks[t].cur
        h1 == IF resolved /\ invalidRowIndices # {}
              THEN [h EXCEPT !.tasks[t].results = MapSet(@, colIdx, invalidRowIndices),
                             !.errors = MapSet(@, colIdx, invalidRowIndices)]
              ELSE [h EXCEPT !.errors = MapDelete(@, colIdx)]
    IN  ValidateLoop(h1, t)

\* VALIDATE_COLUMN's promise settles for slot t: resolved with the invalid
\* rows, or rejected (caught and logged inside the loop).
ValidateSettled(h, t, resolved, invalidRowIndices) ==
    LET colIdx == h.tasks[t].cur
        h1 == IF resolved /\ invalidRowIndices # {}
              THEN [h EXCEPT !.tasks[t].results = MapSet(@, colIdx, invalidRowIndices)]
              ELSE h
    IN  ValidateLoop(h1, t)

(***************************************************************************)
(* fetchRows.                                                              *)
(***************************************************************************)
\* The first loop of fetchRows: the maximal runs of uncached indices of
\* [start, start+limit) below rowCount, in increasing order.
\* A variant of missingRanges that yields one range, from the lowest to the
\* highest missing index of the window.
missingRangesSpanning(cache, count, start, limit) ==
    LET missing == {i \in start .. (start + limit - 1) :
                        i < count /\ i \notin DOMAIN cache}
        lo == CHOOSE i \in missing : \A j \in missing : i <= j
        hi == CHOOSE i \in missing : \A j \in missing : i >= j
    IN  IF missing = {} THEN << >> ELSE << [start |-> lo, limit |-> hi - lo + 1] >>

missingRanges(cache, count, start, limit) ==
    LET missing == {i \in start .. (start + limit - 1) :
                        i < count /\ i \notin DOMAIN cache}
        starts  == SortedSeq({i \in missing : (i - 1) \notin missing})
        len(i)  == CHOOSE n \in 1 .. limit :
                        /\ \A j \in i .. (i + n - 1) : j \in missing
                        /\ (i + n) \notin missing
    IN  [k \in DOMAIN starts |-> [start |-> starts[k], limit |-> len(starts[k])]]

\* schema.map(col => rowObj[col.name] || "")
NormalizeRow(sch, rowObj) ==
    [k \in DOMAIN sch |->
        IF sch[k].name \in DOMAIN rowObj THEN rowObj[sch[k].name] ELSE ""]

\* A variant of FetchLoop without the in-flight guard: no range is skipped.
FetchLoopUnguarded(h, t) ==
    LET tk == h.tasks[t]
    IN  IF tk.ranges = << >>
        THEN End(h, t, "ok")
        ELSE LET range == Head(tk.ranges)
                 id == RequestId("fetch", range.start, range.limit, t)
                 h1 == [h EXCEPT !.inflightChunks = @ \cup {range.start},
                                 !.tasks[t].pc = "fetch",
                                 !.tasks[t].range = range,
                                 !.tasks[t].ranges = Tail(tk.ranges)]
             IN  Request(h1, t, id,
                         [type |-> "GET_ROWS", start |-> range.start,
                          limit |-> range.limit, id |-> id])

\* The second loop of fetchRows from the next range on: ranges whose start
\* is in flight are skipped; up to the next await, or to the return.
FetchLoop(h, t) ==
    LET tk == h.tasks[t]
        live == SelectSeq(tk.ranges, LAMBDA r : r.start \notin h.inflightChunks)
    IN  IF live = << >>
        THEN End(h, t, "ok")
        ELSE LET range == Head(live)
                 rest  == SubSeq(tk.ranges,
                                 1 + (CHOOSE k \in DOMAIN tk.ranges : tk.ranges[k] = range),
                                 Len(tk.ranges))
                 id == RequestId("fetch", range.start, range.limit, t)
                 h1 == [h EXCEPT !.inflightChunks = @ \cup {range.start},
                                 !.tasks[t].pc = "fetch",
                                 !.tasks[t].range = range,
                                 !.tasks[t].ranges = rest]
             IN  Request(h1, t, id,
                         [type |-> "GET_ROWS", start |-> range.start,
                          limit |-> range.limit, id |-> id])

\* GET_ROWS's promise settles for slot t.
FetchSettled(h, t, resolved, rows) ==
    LET tk == h.tasks[t]
        got == IF resolved
               THEN [i \in {tk.range.start + idx - 1 : idx \in DOMAIN rows} |->
                        NormalizeRow(tk.schema, rows[i - tk.range.start + 1])]
               ELSE EmptyMap
        h1 == [h EXCEPT !.rowCache = MapSetAll(@, got),
                        !.tasks[t].result = MapSetAll(@, got),
                        \* finally
                        !.inflightChunks = @ \ {tk.range.start}]
    IN  FetchLoop(h1, t)

(***************************************************************************)
(* The mutations and getSuggestions after their await.                     *)
(***************************************************************************)
\* A variant of MutationSettled that bumps the version on failure too.
MutationSettledBumps(h, t, resolved) ==
    LET tk == h.tasks[t] IN
    IF resolved
    THEN validateColumnsSafe(h, t, << IF tk.op = "updateCell" THEN tk.b ELSE tk.a >>)
    ELSE End([h EXCEPT !.dataVersion = @ + 1], t,
             IF tk.op = "updateCell" THEN "failed" ELSE "caught")

\* A variant of MutationSettled that goes on to revalidate after a failure.
MutationSettledRevalidates(h, t, resolved) ==
    LET tk == h.tasks[t] IN
    validateColumnsSafe(h, t, << IF tk.op = "updateCell" THEN tk.b ELSE tk.a >>)

\* The engine call of applyCorrection / applySuggestion / updateCell settles.
MutationSettled(h, t, resolved) ==
    LET tk == h.tasks[t] IN
    IF resolved
    THEN validateColumnsSafe(h, t, << IF tk.op = "updateCell" THEN tk.b ELSE tk.a >>)
    ELSE \* catch: applyCorrection and applySuggestion log and return,
         \* updateCell rethrows
         End(h, t, IF tk.op = "updateCell" THEN "failed" ELSE "caught")

\* onmessage settles the pending request of slot t.
Settle(h, t, resolved, payload) ==
    LET pc == h.tasks[t].pc IN
    IF pc = "fetch" THEN FetchSettled(h, t, resolved, payload)
    ELSE IF pc = "validate" THEN ValidateSettled(h, t, resolved, payload)
    ELSE IF pc = "mutate" THEN MutationSettled(h, t, resolved)
    ELSE \* getSuggestions: a result, or [] on failure
         End(h, t, IF resolved THEN "ok" ELSE "caught")

(***************************************************************************)
(* worker.onmessage and loadFile's message listener.                       *)
(***************************************************************************)
Correlated == {"GET_ROWS_COMPLETE", "VALIDATE_COLUMN_COMPLETE", "CORRECTION_COMPLETE",
               "GET_SUGGESTIONS_COMPLETE", "SUGGESTION_COMPLETE", "UPDATE_CELL_COMPLETE"}

\* A variant of MergeErrors that replaces a column's set by the reported one.
MergeErrorsReplaces(errs, payload) == MapSetAll(errs, payload)

\* A variant of MergeErrors that starts from an empty Map instead of a copy
\* of the previous one.
MergeErrorsFresh(errs, payload) == payload

\* VALIDATION_UPDATE: every reported row is added to its column's set.
MergeErrors(errs, payload) ==
    [c \in (DOMAIN errs) \cup (DOMAIN payload) |->
        (IF c \in DOMAIN errs THEN errs[c] ELSE {})
            \cup (IF c \in DOMAIN payload THEN payload[c] ELSE {})]

\* A variant of onmessage in which a chunk's error update already moves the
\* stage to Studio.
onmessageStudioOnUpdate(h, m) ==
    IF m.type = "INIT_COMPLETE" THEN [h EXCEPT !.isReady = TRUE]
    ELSE IF m.type \in Correlated
    THEN IF m.id \in DOMAIN h.pendingRequests
         THEN Settle([h EXCEPT !.pendingRequests = MapDelete(@, m.id)],
                     h.pendingRequests[m.id], TRUE, m.payload)
         ELSE h
    ELSE IF m.type = "VALIDATION_UPDATE"
    THEN [h EXCEPT !.errors = MergeErrors(@, m.payload), !.stage = "STUDIO"]
    ELSE IF m.type = "VALIDATION_COMPLETE" THEN [h EXCEPT !.stage = "STUDIO"]
    ELSE IF m.type = "ERROR"
    THEN LET errId == m.payload.id IN
         IF errId # NoId /\ errId \in DOMAIN h.pendingRequests
         THEN Settle([h EXCEPT !.pendingRequests = MapDelete(@, errId)],
                     h.pendingRequests[errId], FALSE, << >>)
         ELSE h
    ELSE h

\* A variant of worker.onmessage that takes no notice of the completion
\* signal.
onmessageIgnoresCompletion(h, m) ==
    IF m.type = "INIT_COMPLETE" THEN [h EXCEPT !.isReady = TRUE]
    ELSE IF m.type \in Correlated
    THEN IF m.id \in DOMAIN h.pendingRequests
         THEN Settle([h EXCEPT !.pendingRequests = MapDelete(@, m.id)],
                     h.pendingRequests[m.id], TRUE, m.payload)
         ELSE h
    ELSE IF m.type = "VALIDATION_UPDATE"
    THEN [h EXCEPT !.errors = MergeErrors(@, m.payload)]
    ELSE IF m.type = "ERROR"
    THEN LET errId == m.payload.id IN
         IF errId # NoId /\ errId \in DOMAIN h.pendingRequests
         THEN Settle([h EXCEPT !.pendingRequests = MapDelete(@, errId)],
                     h.pendingRequests[errId], FALSE, << >>)
         ELSE h
    ELSE h

\* worker.onmessage
onmessage(h, m) ==
    IF m.type = "INIT_COMPLETE" THEN [h EXCEPT !.isReady = TRUE]
    ELSE IF m.type \in Correlated
    THEN IF m.id \in DOMAIN h.pendingRequests
         THEN Settle([h EXCEPT !.pendingRequests = MapDelete(@, m.id)],
                     h.pendingRequests[m.id], TRUE, m.payload)
         ELSE h
    ELSE IF m.type = "VALIDATION_UPDATE"
    THEN [h EXCEPT !.errors = MergeErrors(@, m.payload)]
    ELSE IF m.type = "VALIDATION_COMPLETE" THEN [h EXCEPT !.stage = "STUDIO"]
    ELSE IF m.type = "ERROR"
    THEN LET errId == m.payload.id IN
         IF errId # NoId /\ errId \in DOMAIN h.pendingRequests
         THEN Settle([h EXCEPT !.pendingRequests = MapDelete(@, errId)],
                     h.pendingRequests[errId], FALSE, << >>)
         ELSE h
    ELSE h

\* A variant of handleLoad without the finally block: a rejected load leaves
\* isLoadingFile set.
handleLoadNoFinally(h, t, m) ==
    IF h.tasks[t].op = "loadFile" /\ h.tasks[t].pc = "load"
    THEN IF m.type = "LOAD_COMPLETE"
         THEN End([h EXCEPT !.schema = m.payload.schema,
                            !.rowCount = m.payload.row_count,
                            !.isLoadingFile = FALSE], t, "ok")
         ELSE IF m.type = "ERROR"
         THEN End(h, t, "failed")
         ELSE h
    ELSE h

\* handleLoad of the loadFile suspended in slot t, and loadFile's finally.
handleLoad(h, t, m) ==
    IF h.tasks[t].op = "loadFile" /\ h.tasks[t].pc = "load"
    THEN IF m.type = "LOAD_COMPLETE"
         THEN End([h EXCEPT !.schema = m.payload.schema,
                            !.rowCount = m.payload.row_count,
                            !.isLoadingFile = FALSE], t, "ok")
         ELSE IF m.type = "ERROR"
         THEN End([h EXCEPT !.isLoadingFile = FALSE], t, "failed")
         ELSE h
    ELSE h

\* Every registered listener sees the message, after onmessage.
RECURSIVE Listeners(_, _, _)
Listeners(h, ts, m) ==
    IF ts = {} THEN h
    ELSE LET t == CHOOSE x \in ts : \A y \in ts : x <= y
         IN  Listeners(handleLoad(h, t, m), ts \ {t}, m)

(***************************************************************************)
(* Actions of the client.                                                  *)
(***************************************************************************)
Commit(h, name, a, b) ==
    /\ isReady' = h.isReady
    /\ stage' = h.stage
    /\ schema' = h.schema
    /\ initialSchema' = h.initialSchema
    /\ rowCount' = h.rowCount
    /\ errors' = h.errors
    /\ pendingValidation' = h.pendingValidation
    /\ isLoadingFile' = h.isLoadingFile
    /\ dataVersion' = h.dataVersion
    /\ pendingRequests' = h.pendingRequests
    /\ rowCache' = h.rowCache
    /\ inflightChunks' = h.inflightChunks
    /\ isBatchValidating' = h.isBatchValidating
    /\ tasks' = h.tasks
    /\ vcSent' = h.vcSent
    /\ clock' = h.clock
    /\ toWorker' = toWorker \o h.out
    /\ lastOp' = [name |-> name, a |-> a, b |-> b, ended |-> h.ended]

\* An API call made by the UI.
Call(h, name, a, b) ==
    /\ calls > 0
    /\ calls' = calls - 1
    /\ Commit(h, name, a, b)
    /\ UNCHANGED << workerVars, toClient, ui >>

(***************************************************************************)
(* Date.now().  A millisecond is named by a number that only has to tell   *)
(* it from the other milliseconds still held in an outstanding id: a read  *)
(* that finds the clock advanced takes the slot of the operation (or the   *)
(* next free name), a read that finds the clock standing takes the name of *)
(* the read before.  clock.stalls bounds the reads that find it standing;  *)
(* clock.last is kept only while a later read may still need it.           *)
(***************************************************************************)
StampInUse(h, s) ==
    s = h.clock.last \/ \E id \in DOMAIN h.pendingRequests : id.ts = s
FreshStamp(h, t) ==
    LET free == {k \in 0 .. (MaxTasks + 1) : ~StampInUse(h, t + k * MaxTasks)}
        k0 == CHOOSE k \in free : \A j \in free : k <= j
    IN  t + k0 * MaxTasks
CanStand(stands) == stands => (clock.stalls > 0 /\ clock.last # 0)
\* The value Date.now() returns to the operation of slot t.
DateNow(h, t, stands) == IF stands THEN h.clock.last ELSE FreshStamp(h, t)
\* The clock after that read.
Read(h, t, stands) ==
    LET left == IF stands THEN h.clock.stalls - 1 ELSE h.clock.stalls
    IN  [h EXCEPT !.clock = [stalls |-> left,
                             last |-> IF left > 0 THEN DateNow(h, t, stands) ELSE 0]]

HasFreeTask == \E t \in TaskIds : tasks[t].op = "idle"
FreeTask == CHOOSE t \in TaskIds :
                tasks[t].op = "idle" /\ \A u \in TaskIds : tasks[u].op = "idle" => t <= u
\* The call of operation op(a, b) occupies slot t, with the closure's schema;
\* `cached` observes the row indices cached when the call is made.
Begin(h, t, op, pc, a, b) ==
    [h EXCEPT !.tasks[t] = [IdleTask EXCEPT !.op = op, !.pc = pc, !.a = a, !.b = b,
                                            !.schema = h.schema,
                                            !.cached = DOMAIN h.rowCache]]

\* A variant of Offered in which every call is offered at any time.
OfferedAlways(condition) == TRUE

\* The discipline of the UI: under "wizard" it makes a call only where its
\* screens offer it; under "any" it makes every call at any time.
Offered(condition) == ui = "any" \/ condition
Loaded == rowCount > 0

goToIngestion ==
    /\ Offered(stage = "SCHEMA")
    /\ Call([H EXCEPT !.stage = "INGESTION"], "goToIngestion", 0, 0)

\* A variant of loadFile that the import screen offers before the engine is
\* ready.
loadFileUngated ==
    /\ Offered(stage = "INGESTION" /\ ~isLoadingFile /\ ~Loaded)
    /\ HasFreeTask
    /\ LET h1 == [H EXCEPT !.isLoadingFile = TRUE, !.schema = << >>, !.rowCount = 0,
                           !.errors = EmptyMap, !.rowCache = EmptyMap,
                           !.pendingValidation = << >>]
       IN  Call(Begin(h1, FreeTask, "loadFile", "read", 0, 0), "loadFile", 0, 0)

loadFile ==
    /\ Offered(stage = "INGESTION" /\ isReady /\ ~isLoadingFile /\ ~Loaded)
    /\ HasFreeTask
    /\ LET h1 == [H EXCEPT !.isLoadingFile = TRUE, !.schema = << >>, !.rowCount = 0,
                           !.errors = EmptyMap, !.rowCache = EmptyMap,
                           !.pendingValidation = << >>]
       IN  Call(Begin(h1, FreeTask, "loadFile", "read", 0, 0), "loadFile", 0, 0)

\* file.arrayBuffer() resolves: the listener is added and LOAD_FILE posted.
loadFileRead ==
    \E t \in TaskIds :
        /\ tasks[t].op = "loadFile" /\ tasks[t].pc = "read"
        /\ Commit([H EXCEPT !.tasks[t].pc = "load",
                            !.out = << [type |-> "LOAD_FILE"] >>], "loadFileRead", 0, 0)
        /\ UNCHANGED << workerVars, toClient, ui, calls >>

\* A variant of updateColumnType that never removes a column from pending.
updateColumnTypeAlwaysAdds ==
    \E colIdx \in Cols, newType \in ColumnType :
        /\ colIdx + 1 \in DOMAIN schema
        /\ Offered(stage \in {"INGESTION", "STUDIO"})
        /\ LET isChanged == (IF colIdx + 1 \in DOMAIN initialSchema
                             THEN initialSchema[colIdx + 1].detected_type
                             ELSE "undefined") # newType
               h1 == [H EXCEPT !.schema[colIdx + 1].detected_type = newType]
               h2 == IF stage = "STUDIO"
                     THEN [h1 EXCEPT !.pendingValidation =
                                        SetAdd(@, colIdx)]
                     ELSE h1
               h3 == [h2 EXCEPT !.errors = MapDelete(@, colIdx)]
           IN  Call(h3, "updateColumnType", colIdx, 0)

\* A variant of updateColumnType that records the edited column as pending
\* in every stage.
updateColumnTypeMarksEveryStage ==
    \E colIdx \in Cols, newType \in ColumnType :
        /\ colIdx + 1 \in DOMAIN schema
        /\ Offered(stage \in {"INGESTION", "STUDIO"})
        /\ LET isChanged == (IF colIdx + 1 \in DOMAIN initialSchema
                             THEN initialSchema[colIdx + 1].detected_type
                             ELSE "undefined") # newType
               h1 == [H EXCEPT !.schema[colIdx + 1].detected_type = newType]
               h2 == [h1 EXCEPT !.pendingValidation =
                                        IF isChanged THEN SetAdd(@, colIdx)
                                        ELSE SetDelete(@, colIdx)]
               h3 == [h2 EXCEPT !.errors = MapDelete(@, colIdx)]
           IN  Call(h3, "updateColumnType", colIdx, 0)

\* A variant of updateColumnType that treats the relabeling as a change of
\* content: it clears the row cache and moves the version token.
updateColumnTypeClearsCache ==
    \E colIdx \in Cols, newType \in ColumnType :
        /\ colIdx + 1 \in DOMAIN schema
        /\ Offered(stage \in {"INGESTION", "STUDIO"})
        /\ LET isChanged == (IF colIdx + 1 \in DOMAIN initialSchema
                             THEN initialSchema[colIdx + 1].detected_type
                             ELSE "undefined") # newType
               h1 == [H EXCEPT !.schema[colIdx + 1].detected_type = newType]
               h2 == IF stage = "STUDIO"
                     THEN [h1 EXCEPT !.pendingValidation =
                                        IF isChanged THEN SetAdd(@, colIdx)
                                        ELSE SetDelete(@, colIdx)]
                     ELSE h1
               h3 == [h2 EXCEPT !.errors = MapDelete(@, colIdx),
                                !.rowCache = EmptyMap,
                                !.dataVersion = @ + 1]
           IN  Call(h3, "updateColumnType", colIdx, 0)

updateColumnType ==
    \E colIdx \in Cols, newType \in ColumnType :
        /\ colIdx + 1 \in DOMAIN schema
        /\ Offered(stage \in {"INGESTION", "STUDIO"})
        /\ LET isChanged == (IF colIdx + 1 \in DOMAIN initialSchema
                             THEN initialSchema[colIdx + 1].detected_type
                             ELSE "undefined") # newType
               h1 == [H EXCEPT !.schema[colIdx + 1].detected_type = newType]
               h2 == IF stage = "STUDIO"
                     THEN [h1 EXCEPT !.pendingValidation =
                                        IF isChanged THEN SetAdd(@, colIdx)
                                        ELSE SetDelete(@, colIdx)]
                     ELSE h1
               h3 == [h2 EXCEPT !.errors = MapDelete(@, colIdx)]
           IN  Call(h3, "updateColumnType", colIdx, 0)

\* A variant of confirmSchema that starts the pass before it pushes the
\* schema.
confirmSchemaStartsFirst ==
    /\ Offered(stage = "INGESTION" /\ Loaded)
    /\ Call([H EXCEPT !.stage = "PROCESSING",
                   !.initialSchema = schema,
                   !.errors = EmptyMap,
                   !.out = << [type |-> "START_VALIDATION"],
                              [type |-> "UPDATE_SCHEMA", payload |-> schema] >>],
         "confirmSchema", 0, 0)

confirmSchema ==
    /\ Offered(stage = "INGESTION" /\ Loaded)
    /\ Call([H EXCEPT !.stage = "PROCESSING",
                   !.initialSchema = schema,
                   !.errors = EmptyMap,
                   !.out = << [type |-> "UPDATE_SCHEMA", payload |-> schema],
                              [type |-> "START_VALIDATION"] >>],
         "confirmSchema", 0, 0)

fetchRows ==
    \E w \in FetchWindows :
        LET start == w[1]
            limit == w[2]
            t  == FreeTask
            h1 == Begin(H, t, "fetchRows", "fetch", start, limit)
            h2 == [h1 EXCEPT
                     !.tasks[t].result =
                         [i \in {j \in start .. (start + limit - 1) :
                                    j < rowCount /\ j \in DOMAIN rowCache}
                            |-> rowCache[i]],
                     !.tasks[t].ranges = missingRanges(rowCache, rowCount, start, limit)]
        IN  /\ Offered(Loaded)
            /\ \/ /\ rowCount = 0
                  /\ Call([H EXCEPT !.ended = {Ended("fetchRows", start, limit, "ok", DOMAIN rowCache)}],
                          "fetchRows", start, limit)
               \/ /\ rowCount # 0
                  /\ HasFreeTask
                  /\ Call(FetchLoop(h2, t), "fetchRows", start, limit)

runBatchValidation ==
    LET t == FreeTask
        h1 == Begin(H, t, "runBatchValidation", "validate", 0, 0)
    IN  /\ Offered(stage = "STUDIO" /\ pendingValidation # << >>)
        /\ \/ /\ pendingValidation = << >>
              /\ Call([H EXCEPT !.ended = {Ended("runBatchValidation", 0, 0, "ok", DOMAIN rowCache)}],
                      "runBatchValidation", 0, 0)
           \/ /\ pendingValidation # << >>
              /\ HasFreeTask
              /\ Call(validateColumnsSafe(h1, t, pendingValidation),
                      "runBatchValidation", 0, 0)

applyCorrection ==
    \E colIdx \in Cols :
        /\ Offered(stage = "STUDIO")
        /\ HasFreeTask
        /\ \E stands \in BOOLEAN :
           /\ CanStand(stands)
           /\ LET t == FreeTask
                  id == RequestId("fix", colIdx, 0, DateNow(H, t, stands))
                  h1 == Begin(Read(H, t, stands), t, "applyCorrection", "mutate", colIdx, 0)
              IN  Call(Request(h1, t, id, [type |-> "APPLY_CORRECTION", colIdx |-> colIdx,
                                        strategy |-> "clear", id |-> id]),
                    "applyCorrection", colIdx, 0)

getSuggestions ==
    \E colIdx \in Cols :
        /\ Offered(stage = "STUDIO")
        /\ HasFreeTask
        /\ \E stands \in BOOLEAN :
           /\ CanStand(stands)
           /\ LET t == FreeTask
                  id == RequestId("getsuggest", colIdx, 0, DateNow(H, t, stands))
                  h1 == Begin(Read(H, t, stands), t, "getSuggestions", "suggest", colIdx, 0)
              IN  Call(Request(h1, t, id, [type |-> "GET_SUGGESTIONS", colIdx |-> colIdx,
                                        id |-> id]),
                    "getSuggestions", colIdx, 0)

applySuggestion ==
    \E colIdx \in Cols :
        /\ Offered(stage = "STUDIO")
        /\ HasFreeTask
        /\ \E stands \in BOOLEAN :
           /\ CanStand(stands)
           /\ LET t == FreeTask
                  id == RequestId("applysuggest", colIdx, 0, DateNow(H, t, stands))
                  h1 == Begin(Read(H, t, stands), t, "applySuggestion", "mutate", colIdx, 0)
              IN  Call(Request(h1, t, id, [type |-> "APPLY_SUGGESTION", colIdx |-> colIdx,
                                        suggestion |-> "DigitsOnly", id |-> id]),
                    "applySuggestion", colIdx, 0)

updateCell ==
    \E e \in CellEdits : LET rowIdx == e[1] colIdx == e[2] value == e[3] IN
        /\ Offered(stage = "STUDIO")
        /\ HasFreeTask
        /\ \E stands \in BOOLEAN :
           /\ CanStand(stands)
           /\ LET t == FreeTask
                  id == RequestId("updatecell", rowIdx, colIdx, DateNow(H, t, stands))
                  h1 == Begin(Read(H, t, stands), t, "updateCell", "mutate", rowIdx, colIdx)
              IN  Call(Request(h1, t, id, [type |-> "UPDATE_CELL", rowIdx |-> rowIdx,
                                        colIdx |-> colIdx, value |-> value, id |-> id]),
                    "updateCell", rowIdx, colIdx)

\* One message of the worker is delivered: onmessage, then the listeners,
\* with the continuations they release.
ClientReceive ==
    /\ toClient # << >>
    /\ LET m == Head(toClient)
       IN  Commit(Listeners(onmessage(H, m), TaskIds, m), "receive", 0, 0)
    /\ toClient' = Tail(toClient)
    /\ UNCHANGED << workerVars, ui, calls >>

(***************************************************************************)
(* Find and replace.  The worker's FIND_REPLACE_ALL handler walks the      *)
(* dataset CHUNK rows at a time, one engine call per timer callback.       *)
(***************************************************************************)
\* The (find, replace) pairs the user asks for.
FindReplacePairs == {<< "x", "1" >>, << "1", "x" >>}

\* find_replace_range(start, count, find, replace): the cells of the rows
\* [start, start+count) that hold `find` are rewritten; the number of
\* rewritten cells is returned.
InRange(r, start, count) == start <= r /\ r < start + count
find_replace_range(rows, start, count, find, replace) ==
    [r \in DOMAIN rows |->
        [c \in Cols |-> IF InRange(r, start, count) /\ rows[r][c] = find
                        THEN replace ELSE rows[r][c]]]
find_replace_count(rows, start, count, find) ==
    Cardinality({rc \in (DOMAIN rows) \X Cols :
                    InRange(rc[1], start, count) /\ rows[rc[1]][rc[2]] = find})

\* A variant of doChunk that completes the job when no whole chunk remains.
doChunkStopsEarly(job, throws, waiting) ==
    IF job.start + CHUNK >= totalRows
    THEN /\ ~throws
         /\ toClient' = Append(toClient,
                Reply("FIND_REPLACE_ALL_COMPLETE", job.id, job.totalReplaced))
         /\ findReplace' = [findReplace EXCEPT !.jobs = waiting]
         /\ UNCHANGED engRows
    ELSE IF throws
    THEN /\ toClient' = Append(toClient, ErrorWithId(job.id))
         /\ findReplace' = [findReplace EXCEPT !.jobs = waiting]
         /\ UNCHANGED engRows
    ELSE LET count == find_replace_count(engRows, job.start, CHUNK, job.find)
         IN  /\ engRows' = find_replace_range(engRows, job.start, CHUNK,
                                              job.find, job.replace)
             /\ findReplace' =
                  [jobs |-> Append(waiting,
                              [job EXCEPT !.totalReplaced = @ + count,
                                          !.start = @ + CHUNK]),
                   calls |-> Append(findReplace.calls,
                              [id |-> job.id, start |-> job.start,
                               totalReplaced |-> job.totalReplaced,
                               count |-> count])]
             /\ UNCHANGED toClient

\* A variant of doChunk that schedules the next chunk without having
\* accumulated the count of this one.
doChunkDropsCount(job, throws, waiting) ==
    IF job.start >= totalRows
    THEN /\ ~throws
         /\ toClient' = Append(toClient,
                Reply("FIND_REPLACE_ALL_COMPLETE", job.id, job.totalReplaced))
         /\ findReplace' = [findReplace EXCEPT !.jobs = waiting]
         /\ UNCHANGED engRows
    ELSE IF throws
    THEN /\ toClient' = Append(toClient, ErrorWithId(job.id))
         /\ findReplace' = [findReplace EXCEPT !.jobs = waiting]
         /\ UNCHANGED engRows
    ELSE LET count == find_replace_count(engRows, job.start, CHUNK, job.find)
         IN  /\ engRows' = find_replace_range(engRows, job.start, CHUNK,
                                              job.find, job.replace)
             /\ findReplace' =
                  [jobs |-> Append(waiting, [job EXCEPT !.start = @ + CHUNK]),
                   calls |-> Append(findReplace.calls,
                              [id |-> job.id, start |-> job.start,
                               totalReplaced |-> job.totalReplaced,
                               count |-> count])]
             /\ UNCHANGED toClient

\* doChunk of the job `job` (its closure: id, find, replace, start,
\* totalReplaced); `waiting` are the other jobs whose timer is set.
doChunk(job, throws, waiting) ==
    IF job.start >= totalRows
    THEN /\ ~throws
         /\ toClient' = Append(toClient,
                Reply("FIND_REPLACE_ALL_COMPLETE", job.id, job.totalReplaced))
         /\ findReplace' = [findReplace EXCEPT !.jobs = waiting]
         /\ UNCHANGED engRows
    ELSE IF throws
    THEN /\ toClient' = Append(toClient, ErrorWithId(job.id))
         /\ findReplace' = [findReplace EXCEPT !.jobs = waiting]
         /\ UNCHANGED engRows
    ELSE LET count == find_replace_count(engRows, job.start, CHUNK, job.find)
         IN  /\ engRows' = find_replace_range(engRows, job.start, CHUNK,
                                              job.find, job.replace)
             /\ findReplace' =
                  [jobs |-> Append(waiting,
                              [job EXCEPT !.totalReplaced = @ + count,
                                          !.start = @ + CHUNK]),
                   calls |-> Append(findReplace.calls,
                              [id |-> job.id, start |-> job.start,
                               totalReplaced |-> job.totalReplaced,
                               count |-> count])]
             /\ UNCHANGED toClient

WorkerFindReplaceAll ==
    /\ WorkerHead("FIND_REPLACE_ALL")
    /\ WorkerTake
    /\ isWasmReady' = TRUE
    /\ \E throws \in BOOLEAN :
        /\ MayThrow(throws)
        /\ CountFault(throws)
        /\ LET m == Head(toWorker)
           IN  doChunk([id |-> m.id, find |-> m.find, replace |-> m.replace,
                        start |-> 0, totalReplaced |-> 0],
                       throws, findReplace.jobs)
    /\ UNCHANGED << clientSide, totalRows, validationJob, timers, engSchema,
                    chunkCalls, passSignals >>

\* setTimeout(doChunk, 0) firing.
WorkerFindReplaceTimer ==
    /\ findReplace.jobs # << >>
    /\ \E throws \in BOOLEAN :
        /\ MayThrow(throws)
        /\ CountFault(throws)
        /\ doChunk(Head(findReplace.jobs), throws, Tail(findReplace.jobs))
    /\ UNCHANGED << clientSide, toWorker, isWasmReady, totalRows, validationJob,
                    timers, engSchema, chunkCalls, passSignals >>

\* The hook's findReplaceAll(find, replace), offered by the Studio screen:
\* the request is posted with a correlation id.
findReplaceAll ==
    \E p \in FindReplacePairs :
        /\ Offered(stage = "STUDIO")
        /\ LET id == RequestId("findreplace", 0, 0, calls)
           IN  Call([H EXCEPT !.out = << [type |-> "FIND_REPLACE_ALL", find |-> p[1],
                                         replace |-> p[2], id |-> id] >>],
                    "findReplaceAll", 0, 0)

(***************************************************************************)
(* The specification.                                                      *)
(***************************************************************************)
\* The hook is mounted: the worker exists and INIT has been posted.  The
\* environment follows discipline d, makes at most c calls, at most f
\* engine calls throw, and at most s reads of the clock find it standing.
InitWith(d, c, f, s) ==
    /\ isReady = FALSE /\ stage = "SCHEMA" /\ schema = << >> /\ initialSchema = << >>
    /\ rowCount = 0 /\ errors = EmptyMap /\ pendingValidation = << >>
    /\ isLoadingFile = FALSE /\ dataVersion = 0
    /\ pendingRequests = EmptyMap /\ rowCache = EmptyMap /\ inflightChunks = {}
    /\ isBatchValidating = FALSE
    /\ tasks = [t \in TaskIds |-> IdleTask]
    /\ toWorker = << [type |-> "INIT"] >> /\ toClient = << >>
    /\ isWasmReady = FALSE /\ totalRows = 0 /\ validationJob = NoJob /\ timers = 0
    /\ findReplace = [jobs |-> << >>, calls |-> << >>]
    /\ engRows = EmptyMap /\ engSchema = << >>
    /\ ui = d /\ calls = c /\ faults = f /\ chunkCalls = << >> /\ passSignals = 0
    /\ vcSent = [c0 \in Cols |-> 0]
    /\ lastOp = [name |-> "mount", a |-> 0, b |-> 0, ended |-> {}]
    /\ clock = [stalls |-> s, last |-> 0]

Init == InitWith("wizard", MaxCalls, 0, 0)
InitFaults == InitWith("wizard", MaxFaultyCalls, MaxFaults, 0)
InitAny == InitWith("any", MaxAnyCalls, 0, 0)
InitClock == InitWith("wizard", MaxClockCalls, 0, MaxStalls)
InitAnyFaults == InitWith("any", MaxAnyCalls, MaxFaults, 0)

Next ==
    \/ goToIngestion \/ loadFile \/ loadFileRead \/ updateColumnType \/ confirmSchema
    \/ fetchRows \/ runBatchValidation
    \/ applyCorrection \/ getSuggestions \/ applySuggestion \/ updateCell
    \/ ClientReceive
    \/ WorkerInit \/ WorkerLoadFile \/ WorkerUpdateSchema \/ WorkerStartValidation
    \/ WorkerTimer \/ WorkerGetRows \/ WorkerValidateColumn \/ WorkerApplyCorrection
    \/ WorkerGetSuggestions \/ WorkerApplySuggestion \/ WorkerUpdateCell

\* The engine never throws.
Spec == Init /\ [][Next]_vars
\* Engine calls may throw.
SpecFaults == InitFaults /\ [][Next]_vars
\* The hook's API is called in any order, whatever the stage.
SpecAny == InitAny /\ [][Next]_vars
\* Two reads of Date.now() may fall in the same millisecond.
SpecClock == InitClock /\ [][Next]_vars
\* The hook's API is called in any order and engine calls may throw.
SpecAnyFaults == InitAnyFaults /\ [][Next]_vars

InitFindReplace == InitWith("wizard", MaxFindCalls, MaxFaults, 0)
NextFindReplace ==
    \/ Next
    \/ findReplaceAll \/ WorkerFindReplaceAll \/ WorkerFindReplaceTimer
\* The UI also starts find-and-replace jobs; engine calls may throw.
SpecFindReplace == InitFindReplace /\ [][NextFindReplace]_vars

\* The worker's event loop runs every task that is ready: a queued message
\* is handled, a timer that is due fires.  The client's event loop delivers
\* every message posted to it, and file.arrayBuffer() resolves.
WorkerMessage ==
    \/ WorkerInit \/ WorkerLoadFile \/ WorkerUpdateSchema \/ WorkerStartValidation
    \/ WorkerGetRows \/ WorkerValidateColumn \/ WorkerApplyCorrection
    \/ WorkerGetSuggestions \/ WorkerApplySuggestion \/ WorkerUpdateCell
    \/ WorkerFindReplaceAll
Fairness ==
    /\ WF_vars(WorkerMessage)
    /\ WF_vars(WorkerTimer)
    /\ WF_vars(WorkerFindReplaceTimer)
    /\ WF_vars(ClientReceive)
    /\ WF_vars(loadFileRead)
InitLive == InitWith("wizard", MaxLiveCalls, 0, 0)
\* The engine never throws and both event loops are fair.
SpecLive == InitLive /\ [][NextFindReplace]_vars /\ Fairness

InitAnyFindReplace == InitWith("any", MaxAnyFindCalls, MaxFaults, 0)
\* The hook's API, findReplaceAll included, is called in any order, whatever
\* the stage and the row count; engine calls may throw.
SpecAnyFindReplace == InitAnyFindReplace /\ [][NextFindReplace]_vars

(***************************************************************************)
(* Vocabulary of the properties.                                           *)
(***************************************************************************)
Mutations == {"applyCorrection", "applySuggestion", "updateCell"}
\* The column a mutation works on.
MutationCol(tk) == IF tk.op = "updateCell" THEN tk.b ELSE tk.a

\* The step is a macrotask of the client (not a step of the worker).
ClientStep ==
    calls' # calls \/ Len(toClient') < Len(toClient) \/ tasks' # tasks

\* What a direct engine getRows(i, 1) yields now, as a column-ordered row.
EngineRow(i) == NormalizeRow(engSchema, KeyedRow(engRows, engSchema, i))

\* get(col) of a Map col -> Set(row), absent read as no invalid row.
ErrSet(m, c) == IF c \in DOMAIN m THEN m[c] ELSE {}

\* The operation in slot t settles in this step.
Settles(t) == tasks[t].op # "idle" /\ tasks'[t].op = "idle"
\* Among the operations `ended`, op(a, b) settled with `outcome`.
HasEnded(ended, op, a, b, outcome) ==
    \E e \in ended : e.op = op /\ e.a = a /\ e.b = b /\ e.outcome = outcome
SettlesOk(t) ==
    /\ Settles(t)
    /\ HasEnded(lastOp'.ended, tasks[t].op, tasks[t].a, tasks[t].b, "ok")

(***************************************************************************)
(* C1 - row cache coherence.                                               *)
(***************************************************************************)
\* C1: in every reachable state each row present in the row cache equals the
\* engine's current content for that row index.
C1_CacheIsCurrent ==
    \A i \in DOMAIN rowCache :
        i \in DOMAIN engRows /\ rowCache[i] = EngineRow(i)

(***************************************************************************)
(* C2 - fetchRows(i, 1) then getRow(i).                                    *)
(***************************************************************************)
\* C2: whenever a call fetchRows(i, 1) with i < rowCount completes, getRow(i)
\* returns a row, and the row is what the engine's getRows(i, 1) returns.
C2_FetchedRowIsPresent ==
    [][ClientStep =>
        \A i \in RowIdx :
            (i < rowCount /\ HasEnded(lastOp'.ended, "fetchRows", i, 1, "ok"))
                => (i \in DOMAIN rowCache' /\ rowCache'[i] = EngineRow(i)')]_vars

(***************************************************************************)
(* C3 - a mutation invalidates the cache.                                  *)
(***************************************************************************)
\* The step delivers the reply of a getRows call.
FetchReplyDelivered ==
    /\ toClient # << >> /\ toClient' = Tail(toClient)
    /\ Head(toClient).type = "GET_ROWS_COMPLETE"
NoMutationRunning == \A t \in TaskIds : tasks[t].op \notin Mutations

ValidateReplyDelivered(t) ==
    /\ tasks[t].pc = "validate"
    /\ toClient # << >> /\ toClient' = Tail(toClient)
    /\ Head(toClient).type = "VALIDATE_COLUMN_COMPLETE"
    /\ Head(toClient).id \in DOMAIN pendingRequests
    /\ pendingRequests[Head(toClient).id] = t

\* C4: while the pass goes on, a settled validate-column call leaves the
\* Error Map as it is; when the last call settles, the entry of every column
\* of the batch becomes the result the engine returned for it in this pass.
C4_AtomicTargetedReplace ==
    [][\A t \in TaskIds : ValidateReplyDelivered(t) =>
          IF tasks'[t].pc = "validate"
          THEN errors' = errors
          ELSE \A c \in SeqSet(tasks[t].colIndices) :
                  ErrSet(errors', c) =
                      IF c = tasks[t].cur THEN Head(toClient).payload
                      ELSE ErrSet(tasks[t].results, c)]_vars

\* A batch over both columns has completed and left an entry.
C4_Witness ==
    /\ ~isBatchValidating
    /\ HasEnded(lastOp.ended, "runBatchValidation", 0, 0, "ok")
    /\ \A c \in Cols : vcSent[c] = 1
    /\ \E c \in Cols : ErrSet(errors, c) # {}

(***************************************************************************)
(* C5 - the single-flight latch drops a second targeted pass.              *)
(***************************************************************************)
\* The step makes a targeted-pass request: runBatchValidation is called with
\* columns pending, or the engine acknowledges a mutation.
TargetedPassRequested ==
    \/ calls' # calls /\ lastOp'.name = "runBatchValidation" /\ pendingValidation # << >>
    \/ /\ toClient # << >> /\ toClient' = Tail(toClient)
       /\ Head(toClient).type \in
              {"CORRECTION_COMPLETE", "SUGGESTION_COMPLETE", "UPDATE_CELL_COMPLETE"}
       /\ Head(toClient).id \in DOMAIN pendingRequests

\* C5: a targeted-pass request made while the latch is held posts nothing to
\* the engine and leaves the Error Map and the latch as they are; while a
\* pass is active no column has been sent to validate-column twice, and when
\* it completes each of its columns has been sent exactly once.
C5_SingleFlightDrop ==
    [][/\ (isBatchValidating /\ TargetedPassRequested)
            => (toWorker' = toWorker /\ errors' = errors /\ vcSent' = vcSent
                    /\ isBatchValidating')
       /\ isBatchValidating' => \A c \in Cols : vcSent'[c] <= 1
       /\ \A t \in TaskIds :
            (tasks[t].pc = "validate" /\ Settles(t))
                => \A c \in Cols :
                      vcSent[c] = IF c \in SeqSet(tasks[t].colIndices) THEN 1 ELSE 0]_vars

\* runBatchValidation has just returned while the latch of another pass is
\* still held.
C5_Witness ==
    /\ isBatchValidating
    /\ lastOp.name = "runBatchValidation"
    /\ HasEnded(lastOp.ended, "runBatchValidation", 0, 0, "ok")

(***************************************************************************)
(* C6 - the Error Map after a mutation.                                    *)
(***************************************************************************)
\* C6: when a mutation on column c completes successfully, and no other
\* mutation on c is running, the Error Map entry of c is the engine's
\* validate-column result on the data as they are now.
C6_ErrorsFreshAfterMutation ==
    [][\A t \in TaskIds :
        (/\ tasks[t].op \in Mutations /\ SettlesOk(t)
         /\ \A u \in TaskIds \ {t} :
               tasks[u].op \in Mutations => MutationCol(tasks[u]) # MutationCol(tasks[t]))
        => LET c == MutationCol(tasks[t]) IN
           ErrSet(errors', c) =
               validate_column(engRows, c, tasks[t].schema[c + 1].detected_type)]_vars

(***************************************************************************)
(* C7 - a type edit in Studio toggles pending membership.                  *)
(***************************************************************************)
\* The step is a call of updateColumnType made in Studio.
StudioTypeEdit ==
    calls' # calls /\ lastOp'.name = "updateColumnType" /\ stage = "STUDIO"

\* C7: after updateColumnType(c, t) in Studio, c is pending exactly when t
\* differs from the baseline type of c; c has no Error Map entry; no other
\* column's membership changes; nothing is sent to the engine; the stage is
\* unchanged.
C7_TypeEditTogglesPending ==
    [][StudioTypeEdit =>
        LET c == lastOp'.a IN
        /\ (c \in SeqSet(pendingValidation'))
               <=> (schema'[c + 1].detected_type # initialSchema[c + 1].detected_type)
        /\ SetDelete(pendingValidation', c) = SetDelete(pendingValidation, c)
        /\ c \notin DOMAIN errors'
        /\ toWorker' = toWorker
        /\ stage' = stage]_vars

\* Column 0 has just been set to a non-baseline type in Studio: it is
\* pending and has no entry, while the Error Map holds another entry.
C7_Witness ==
    /\ stage = "STUDIO" /\ lastOp.name = "updateColumnType" /\ lastOp.a = 0
    /\ schema[1].detected_type # initialSchema[1].detected_type
    /\ 0 \in SeqSet(pendingValidation) /\ 0 \notin DOMAIN errors
    /\ errors # EmptyMap

(***************************************************************************)
(* C8 - how a column leaves the Pending Validation Set.                    *)
(***************************************************************************)
\* C8: a column whose type differs from the baseline leaves the Pending
\* Validation Set only in a step that completes a targeted pass which
\* included the column.
C8_PendingLeavesOnlyByRevalidation ==
    [][\A c \in Cols :
        (/\ c \in SeqSet(pendingValidation) /\ c \notin SeqSet(pendingValidation')
         /\ c + 1 \in DOMAIN schema' /\ c + 1 \in DOMAIN initialSchema
         /\ schema'[c + 1].detected_type # initialSchema[c + 1].detected_type)
        => \E t \in TaskIds :
              /\ tasks[t].pc = "validate" /\ Settles(t)
              /\ c \in SeqSet(tasks[t].colIndices)]_vars

(***************************************************************************)
(* C9 - the Data Version Token.                                            *)
(***************************************************************************)
\* C9: every step changes the Data Version Token by the number of mutations
\* that complete successfully in it (one or none); all other steps, a
\* mutation that fails among them, leave it unchanged.
C9_VersionCountsMutations ==
    [][dataVersion' = dataVersion +
           Cardinality({t \in TaskIds : tasks[t].op \in Mutations /\ SettlesOk(t)})]_vars

\* After one successful mutation an updateCell has just failed.
C9_Witness ==
    /\ dataVersion = 1
    /\ \E e \in lastOp.ended : e.op = "updateCell" /\ e.outcome = "failed"

(***************************************************************************)
(* C10 - the chunk calls of the full pass.                                 *)
(***************************************************************************)
\* ceil(n / c)
CeilDiv(n, c) == (n + c - 1) \div c

\* C10 as claimed: every validate-chunk call has the size of what remains of
\* the dataset from its start offset, at most the chunk size.
C10_LastCallIsRemainder ==
    \A i \in DOMAIN chunkCalls :
        chunkCalls[i][2] = Min(chunkSize, totalRows - chunkCalls[i][1])

\* C10 as amended: the calls of the full pass are at offsets 0, C, 2C, ... in
\* order, every one of size C, the last included; there are never more than
\* ceil(N / C); the completion signal is emitted once, after exactly
\* ceil(N / C) calls.
C10_ChunkCalls ==
    /\ \A i \in DOMAIN chunkCalls : chunkCalls[i] = << (i - 1) * chunkSize, chunkSize >>
    /\ totalRows >= 1 => Len(chunkCalls) <= CeilDiv(totalRows, chunkSize)
    /\ passSignals <= 1
    /\ passSignals = 1 => /\ Len(chunkCalls) = CeilDiv(totalRows, chunkSize)
                          /\ ~validationJob.active
    /\ (chunkCalls # << >> /\ ~validationJob.active) => passSignals = 1

\* The full pass over 3 rows is over: two calls, the second ranging past the
\* last row.
C10_Witness ==
    /\ passSignals = 1 /\ ~validationJob.active
    /\ Len(chunkCalls) = 2
    /\ chunkCalls[2][1] + chunkCalls[2][2] > totalRows

(***************************************************************************)
(* C11 - the Error Map at the end of the full pass.                        *)
(***************************************************************************)
\* The step in which the stage becomes Studio.
EntersStudio == stage # "STUDIO" /\ stage' = "STUDIO"

\* C11: when the stage becomes Studio, the Error Map is what one
\* validate-chunk call over all the rows [0, N) reports, as a Map
\* col -> Set(row).
C11_FullPassErrors ==
    [][EntersStudio =>
        errors' = ErrorsOfFlatList(validate_chunk(engRows, engSchema, 0, totalRows))]_vars

\* Studio has been entered after a pass of two chunks, each of which
\* reported a violation of column 0.
C11_Witness ==
    /\ stage = "STUDIO" /\ lastOp.name = "receive"
    /\ Len(chunkCalls) = 2 /\ passSignals = 1
    /\ ErrSet(errors, 0) = {0, 2}
    /\ dataVersion = 0 /\ pendingValidation = << >>

(***************************************************************************)
(* C12 - what moves the stage to Studio.                                   *)
(***************************************************************************)
\* The completion signals among the messages q.
Completions(q) == Len(SelectSeq(q, LAMBDA m : m.type = "VALIDATION_COMPLETE"))
\* The step in which the worker emits a completion signal.
EmitsCompletion == Completions(toClient') > Completions(toClient)

\* C12: the stage becomes Studio only in the step that receives a completion
\* signal, and it does so from Processing; the worker emits a completion
\* signal only in a step that makes the chunk call reaching the last row and
\* ends the job, one signal at a time and at most one per started pass; a job
\* never ends without the signal.
C12_StudioOnlyOnCompletion ==
    [][/\ EntersStudio =>
            /\ stage = "PROCESSING"
            /\ toClient # << >> /\ toClient' = Tail(toClient)
            /\ Head(toClient).type = "VALIDATION_COMPLETE"
       /\ EmitsCompletion =>
            /\ toClient' = Append(SubSeq(toClient', 1, Len(toClient') - 1),
                                  Reply("VALIDATION_COMPLETE", NoId, 0))
            /\ Completions(toClient') = Completions(toClient) + 1
            /\ Len(chunkCalls') >= 1 /\ chunkCalls' # chunkCalls
            /\ LET last == chunkCalls'[Len(chunkCalls')] IN last[1] + last[2] >= totalRows
            /\ validationJob.active \/ WorkerHead("START_VALIDATION")
            /\ ~validationJob'.active
            /\ passSignals' = 1
       /\ (validationJob.active /\ ~validationJob'.active) => EmitsCompletion]_vars

\* The completion signal of the pass has just been received in Processing.
C12_Witness ==
    /\ stage = "STUDIO" /\ lastOp.name = "receive"
    /\ passSignals = 1 /\ ~validationJob.active
    /\ Completions(toClient) = 0

(***************************************************************************)
(* C13 - the stage only moves forward, one stage at a time.                *)
(***************************************************************************)
StageRank(s) ==
    IF s = "SCHEMA" THEN 0 ELSE IF s = "INGESTION" THEN 1
    ELSE IF s = "PROCESSING" THEN 2 ELSE 3

\* C13: every step that changes the stage moves it to the next stage of
\* Schema -> Ingestion -> Processing -> Studio; Studio is never left.
C13_StageForwardOnly ==
    [][stage' # stage => StageRank(stage') = StageRank(stage) + 1]_vars

(***************************************************************************)
(* C14 - confirmSchema.                                                    *)
(***************************************************************************)
\* The step is a call of confirmSchema.
ConfirmStep == calls' # calls /\ lastOp'.name = "confirmSchema"

ResponseId(m) ==
    IF m.type \in Correlated THEN m.id
    ELSE IF m.type = "ERROR" THEN m.payload.id
    ELSE NoId
\* The ids of the correlated requests not yet handled by the worker and of
\* the responses not yet delivered to the hook.
RequestsInFlight ==
    {toWorker[i].id : i \in {j \in DOMAIN toWorker : "id" \in DOMAIN toWorker[j]}}
ResponsesInFlight ==
    {ResponseId(toClient[i]) : i \in DOMAIN toClient} \ {NoId}
InFlight == RequestsInFlight \cup ResponsesInFlight
\* The step delivers a response with id k to the hook.
DeliversId(k) == toClient # << >> /\ ResponseId(Head(toClient)) = k
                    /\ toClient' = Tail(toClient)

\* C15: in every reachable state the pending-call table holds exactly the
\* ids of the calls dispatched and not yet answered.
C15_TableIsOutstandingCalls == DOMAIN pendingRequests = InFlight

\* What does hold while the engine never throws: the table holds only ids
\* of calls dispatched and not yet answered, and all of them as long as no
\* read of the clock found it standing; an entry leaves the table only in
\* the step that delivers a response with its id; that step removes the
\* entry, resumes the operation registered for it and no other, and hands
\* it the payload (fetched rows land in the row cache); a response whose id
\* is not in the table changes nothing in the hook.
SettlingIsExact ==
    [][ /\ DOMAIN pendingRequests \subseteq InFlight
        /\ clock.stalls = MaxStalls => InFlight \subseteq DOMAIN pendingRequests
        /\ \A k \in DOMAIN pendingRequests :
                \/ k \in DOMAIN pendingRequests' /\ ~DeliversId(k)
                \/ /\ DeliversId(k)
                   /\ k \notin DOMAIN pendingRequests'
                   /\ tasks'[pendingRequests[k]] # tasks[pendingRequests[k]]
                   /\ \A u \in TaskIds \ {pendingRequests[k]} : tasks'[u] = tasks[u]
                   /\ \A j \in DOMAIN pendingRequests' :
                        j \in DOMAIN pendingRequests \/ pendingRequests'[j] = pendingRequests[k]
                   /\ LET m == Head(toClient)
                          tk == tasks[pendingRequests[k]]
                      IN  m.type = "GET_ROWS_COMPLETE" =>
                            \A i \in DOMAIN m.payload :
                                /\ (tk.range.start + i - 1) \in DOMAIN rowCache'
                                /\ rowCache'[tk.range.start + i - 1]
                                     = NormalizeRow(tk.schema, m.payload[i])
        /\ \A k \in InFlight \ DOMAIN pendingRequests :
                DeliversId(k) => hookVars' = hookVars
      ]_vars
\* Two calls shared an id: the first response settled the one handle of the
\* table, the second response found no entry and was dropped, and the
\* operation whose handle was overwritten is still suspended.
DroppedResponse ==
    /\ lastOp.name = "receive" /\ pendingRequests = EmptyMap
    /\ toWorker = << >> /\ toClient = << >>
    /\ dataVersion = 1
    /\ \E t \in TaskIds : tasks[t].pc = "mutate"

(***************************************************************************)
(* C16.  Correlation ids of outstanding calls.                             *)
(***************************************************************************)
\* The number of correlated messages in flight, requests and responses.
MessagesInFlight ==
    Cardinality({j \in DOMAIN toWorker : "id" \in DOMAIN toWorker[j]})
        + Cardinality({i \in DOMAIN toClient : ResponseId(toClient[i]) # NoId})

\* C16: no two outstanding calls share a correlation id, two calls
\* dispatched within the same clock tick included: the correlated messages
\* in flight carry ids that differ from one another.
C16_IdsAreUnique == Cardinality(InFlight) = MessagesInFlight

(***************************************************************************)
(* C17.  ERROR messages and the calls they reject.                         *)
(***************************************************************************)
\* The step delivers an ERROR message to the hook.
DeliversError ==
    toClient # << >> /\ Head(toClient).type = "ERROR" /\ toClient' = Tail(toClient)
\* The operation of slot t ends in this step with a failure (rejected, or
\* caught by the operation's own catch block).
Rejected(t) ==
    /\ Settles(t)
    /\ \E e \in lastOp'.ended : e.op = tasks[t].op /\ e.a = tasks[t].a /\ e.b = tasks[t].b
                                  /\ e.outcome \in {"failed", "caught"}

\* C17: an ERROR message that names correlation id k rejects exactly the
\* pending call k and removes it from the table, and leaves every other
\* outstanding call, an outstanding loadFile included, untouched; an ERROR
\* message that carries no id rejects no call at all.
C17_ErrorRejectsOnlyItsCall ==
    [][DeliversError =>
        LET k == Head(toClient).payload.id IN
        IF k \in DOMAIN pendingRequests
        THEN /\ k \notin DOMAIN pendingRequests'
             /\ \A j \in DOMAIN pendingRequests \ {k} :
                    j \in DOMAIN pendingRequests' /\ pendingRequests'[j] = pendingRequests[j]
             /\ \A u \in TaskIds \ {pendingRequests[k]} : tasks'[u] = tasks[u]
        ELSE /\ tasks' = tasks
             /\ pendingRequests' = pendingRequests
      ]_vars
\* The part of it about an ERROR that names an id.
NamedErrorSparesOthers ==
    [][DeliversError =>
        LET k == Head(toClient).payload.id IN
        k \in DOMAIN pendingRequests =>
             /\ k \notin DOMAIN pendingRequests'
             /\ \A j \in DOMAIN pendingRequests \ {k} :
                    j \in DOMAIN pendingRequests' /\ pendingRequests'[j] = pendingRequests[j]
             /\ \A u \in TaskIds \ {pendingRequests[k]} : tasks'[u] = tasks[u]
      ]_vars

(***************************************************************************)
(* C18.  Engine failures on correlated requests.                           *)
(***************************************************************************)
\* C18: when an engine call fails on a correlated request, the hook rejects
\* the pending call of that request, so no caller is left waiting forever:
\* every entry of the pending-call table has its request, or a response
\* that names its id, still on the way.
C18_NoCallLeftWaiting == DOMAIN pendingRequests \subseteq InFlight

(***************************************************************************)
(* C19.  A mutation whose engine step fails.                               *)
(***************************************************************************)
\* C19: if the engine step of a mutation fails, the remaining steps are
\* skipped: the step in which the hook learns of the failure (it receives
\* an ERROR message) sends no request, and the row cache, the data version,
\* the Error Map and the pending set are as before; a mutation ends with a
\* failure in such a step only.
C19_FailedMutationChangesNothing ==
    [][ /\ DeliversError =>
            /\ toWorker' = toWorker
            /\ vcSent' = vcSent
            /\ rowCache' = rowCache
            /\ dataVersion' = dataVersion
            /\ errors' = errors
            /\ pendingValidation' = pendingValidation
        /\ \A t \in TaskIds :
            (tasks[t].op \in Mutations /\ Rejected(t)) =>
                /\ DeliversError
                /\ Head(toClient).payload.id \in DOMAIN pendingRequests
                /\ pendingRequests[Head(toClient).payload.id] = t
                /\ tasks[t].pc = "mutate"
      ]_vars
\* An updateCell has just been rejected while rows are cached and the Error
\* Map is not empty.
C19_Witness ==
    /\ lastOp.name = "receive"
    /\ \E e \in lastOp.ended : e.op = "updateCell" /\ e.outcome = "failed"
    /\ rowCache # EmptyMap /\ errors # EmptyMap /\ toWorker = << >>

(***************************************************************************)
(* C20.  Failures of a mutation and its caller.                            *)
(***************************************************************************)
\* The operation of slot t waits for a request or a response on the way.
Awaited(t) ==
    \E k \in DOMAIN pendingRequests : pendingRequests[k] = t /\ k \in InFlight
\* A mutation has just returned normally from its catch block.
SwallowedFailure ==
    \E e \in lastOp.ended : e.op \in Mutations /\ e.outcome = "caught"

\* C20: a failure of any step of applyCorrection, applySuggestion or
\* updateCell is surfaced to the caller: no mutation returns normally after
\* a failure, and none stays suspended with nothing on the way that could
\* settle it.
C20_FailureSurfaced ==
    /\ ~SwallowedFailure
    /\ \A t \in TaskIds : tasks[t].op \in Mutations => Awaited(t)
\* The part of it about normal returns.
NeverSwallowed == ~SwallowedFailure

(***************************************************************************)
(* C22.  A validate-chunk call that fails during the full pass.            *)
(***************************************************************************)
\* The step makes a validate_chunk call and the call throws.
ChunkFails == chunkCalls' # chunkCalls /\ faults' < faults

\* C22: if a validate-chunk call of the full pass fails, the first or a
\* later one, no further chunk is scheduled and the error is reported to
\* the client: the step posts an ERROR message and leaves no timer pending.
C22_FailedChunkStopsAndReports ==
    [][ChunkFails =>
        /\ timers' = 0
        /\ Len(toClient') = Len(toClient) + 1
        /\ toClient'[Len(toClient')].type = "ERROR"
      ]_vars
\* The part of it about scheduling: a failed chunk leaves no timer pending,
\* the job where it was, and no completion signal.
FailedChunkStops ==
    [][ChunkFails =>
        /\ timers' = 0
        /\ validationJob'.active
        /\ validationJob'.currentStart = chunkCalls'[Len(chunkCalls')][1]
        /\ passSignals' = passSignals
        /\ Completions(toClient') = Completions(toClient)
      ]_vars

(***************************************************************************)
(* C23.  A getRows call that fails.                                        *)
(***************************************************************************)
\* The step is a call of fetchRows.
FetchCall == calls' # calls /\ lastOp'.name = "fetchRows"
\* A GET_ROWS request or its response is on the way for start offset s.
FetchInFlight(s) == \E k \in InFlight : k.k = "fetch" /\ k.a = s
\* The GET_ROWS requests the step posts.
PostedFetches ==
    {toWorker'[j] : j \in {i \in DOMAIN toWorker' :
                              i > Len(toWorker) /\ toWorker'[i].type = "GET_ROWS"}}

\* C23: a failed getRows call adds none of its rows to the cache, releases
\* the in-flight guard of its start offset, and is retryable: a fetchRows
\* whose first missing range starts at an offset with no getRows call on the
\* way dispatches a getRows call for that range, whatever happened to
\* earlier calls; no guard entry is left without a call on the way.
C23_FailedFetchIsRetryable ==
    [][ /\ \A s \in inflightChunks' : FetchInFlight(s)'
        /\ FetchCall =>
            LET r == missingRanges(rowCache, rowCount, lastOp'.a, lastOp'.b) IN
            (r # << >> /\ ~FetchInFlight(r[1].start)) =>
                \E m \in PostedFetches : m.start = r[1].start /\ m.limit = r[1].limit
        /\ (DeliversError /\ Head(toClient).payload.id = NoId) => rowCache' = rowCache
      ]_vars
\* The retry alone.
RetryDispatches ==
    [][FetchCall =>
            LET r == missingRanges(rowCache, rowCount, lastOp'.a, lastOp'.b) IN
            (r # << >> /\ ~FetchInFlight(r[1].start)) =>
                \E m \in PostedFetches : m.start = r[1].start /\ m.limit = r[1].limit
      ]_vars
\* A failed getRows call adds nothing to the cache.
FailedFetchCachesNothing ==
    [][(DeliversError /\ Head(toClient).payload.id = NoId) => rowCache' = rowCache]_vars

(***************************************************************************)
(* C24.  The full pass and the targeted pass.                              *)
(***************************************************************************)
\* From confirmSchema's START_VALIDATION to the delivery of the completion
\* signal (or for ever, if the pass broke off).
FullPassActive ==
    \/ \E i \in DOMAIN toWorker : toWorker[i].type = "START_VALIDATION"
    \/ validationJob.active
    \/ timers > 0
    \/ Completions(toClient) > 0
\* A validateColumnsSafe batch is running: its latch is set, or one of its
\* validate-column calls is dispatched and not settled.
TargetedPassActive ==
    \/ isBatchValidating
    \/ \E k \in DOMAIN pendingRequests : k.k = "val"
    \/ \E i \in DOMAIN toWorker : toWorker[i].type = "VALIDATE_COLUMN"
    \/ \E i \in DOMAIN toClient : toClient[i].type = "VALIDATE_COLUMN_COMPLETE"

Missing(start, limit) ==
    {i \in start .. (start + limit - 1) : i < rowCount /\ i \notin DOMAIN rowCache}
\* [lo, lo+n) is a maximal run of missing rows of the window.
IsGap(lo, n, start, limit) ==
    /\ n >= 1
    /\ \A i \in lo .. (lo + n - 1) : i \in Missing(start, limit)
    /\ (lo - 1) \notin Missing(start, limit)
    /\ (lo + n) \notin Missing(start, limit)
\* The gaps of the window that start at an offset with no fetch registered.
OpenGapStarts(start, limit) ==
    {lo \in Missing(start, limit) \ inflightChunks :
        (lo - 1) \notin Missing(start, limit)}
\* The GET_ROWS requests the step posts, as a sequence.
PostedSeq == SubSeq(toWorker', Len(toWorker) + 1, Len(toWorker'))

\* C25 as stated, for a call made while no fetch is in flight: for a window
\* with an uncached row below rowCount the call of fetchRows dispatches
\* exactly one getRows call, from the lowest to the highest missing index;
\* for a window without one it dispatches none.
C25_OneSpanningCall ==
    [][(FetchCall /\ inflightChunks = {}) =>
        LET ms == Missing(lastOp'.a, lastOp'.b) IN
        IF ms = {} THEN PostedSeq = << >>
        ELSE LET lo == CHOOSE i \in ms : \A j \in ms : i <= j
                 hi == CHOOSE i \in ms : \A j \in ms : i >= j
             IN  /\ Len(PostedSeq) = 1
                 /\ PostedSeq[1].type = "GET_ROWS"
                 /\ PostedSeq[1].start = lo /\ PostedSeq[1].limit = hi - lo + 1
      ]_vars

\* C25 amended: fetchRows dispatches one getRows call per maximal run of
\* missing rows of the window whose start offset has no fetch registered,
\* one at a time and in increasing order: the call itself posts the request
\* of the lowest such run (none if there is none, or if rowCount is 0), and
\* each later request is posted when the one before has settled, for the
\* next run computed at the call.  No step posts two getRows requests.
C25_OneCallPerGap ==
    [][ /\ FetchCall =>
            LET a == lastOp'.a
                b == lastOp'.b
                open == OpenGapStarts(a, b)
            IN  IF open = {} THEN PostedSeq = << >>
                ELSE LET lo == CHOOSE i \in open : \A j \in open : i <= j
                     IN  /\ Len(PostedSeq) = 1
                         /\ PostedSeq[1].type = "GET_ROWS"
                         /\ PostedSeq[1].start = lo
                         /\ IsGap(lo, PostedSeq[1].limit, a, b)
        /\ Cardinality(PostedFetches) <= 1
        /\ \A m \in PostedFetches :
            ~FetchCall =>
                \E t \in TaskIds :
                    /\ tasks[t].op = "fetchRows" /\ tasks[t].pc = "fetch"
                    /\ DeliversId(RequestId("fetch", tasks[t].range.start,
                                            tasks[t].range.limit, t))
                    /\ \E i \in DOMAIN tasks[t].ranges :
                        /\ tasks[t].ranges[i] = [start |-> m.start, limit |-> m.limit]
                        /\ m.start > tasks[t].range.start
      ]_vars
\* A fetchRows for the window [0, 3) with row 1 cached has had its first
\* call (0, 1) answered and its second call (2, 1) is outstanding.
C25_Witness ==
    \E t \in TaskIds :
        /\ tasks[t].op = "fetchRows" /\ tasks[t].a = 0 /\ tasks[t].b = 3
        /\ tasks[t].pc = "fetch" /\ tasks[t].range = [start |-> 2, limit |-> 1]
        /\ {0, 1} \subseteq DOMAIN rowCache /\ 2 \notin DOMAIN rowCache

(***************************************************************************)
(* C26.  The in-flight guard of fetchRows.                                 *)
(***************************************************************************)
\* The getRows calls with start offset s that are dispatched and not
\* settled, and their messages on the way.
OutstandingFetches(s) == {k \in DOMAIN pendingRequests : k.k = "fetch" /\ k.a = s}
FetchMessages(s) ==
    Cardinality({i \in DOMAIN toWorker :
                    toWorker[i].type = "GET_ROWS" /\ toWorker[i].start = s})
      + Cardinality({i \in DOMAIN toClient :
                    toClient[i].type = "GET_ROWS_COMPLETE" /\ toClient[i].id.a = s})

\* C26: at any time at most one getRows call with a given start offset is
\* outstanding, and the guard holds an offset exactly while a getRows call
\* with that start is dispatched and not settled.
C26_OneFetchPerStart ==
    \A s \in RowIdx :
        /\ Cardinality(OutstandingFetches(s)) <= 1
        /\ FetchMessages(s) <= 1
        /\ s \in inflightChunks <=> OutstandingFetches(s) # {}
\* A fetchRows has just returned without a call, its window's first row
\* being uncached and guarded by the outstanding fetch of another call.
C26_Witness ==
    /\ lastOp.name = "fetchRows"
    /\ \E e \in lastOp.ended : e.op = "fetchRows"
    /\ lastOp.a \in inflightChunks /\ lastOp.a \notin DOMAIN rowCache
    /\ Cardinality(OutstandingFetches(lastOp.a)) = 1

(***************************************************************************)
(* C27.  The Error Map of the columns that are not pending.                *)
(***************************************************************************)
\* No validation and no mutation is in flight: no operation is suspended,
\* no message is on the way and no pass is running in the worker.
Quiet ==
    /\ \A t \in TaskIds : tasks[t].op = "idle"
    /\ toWorker = << >> /\ toClient = << >>
    /\ ~validationJob.active /\ timers = 0 /\ ~isBatchValidating

\* C27: in Studio, whenever no validation and no mutation is in flight, the
\* Error Map entry of every column that is not in the Pending Validation
\* Set equals the engine's validation result for that column under its
\* current type.
C27_ErrorMapMatchesEngine ==
    (stage = "STUDIO" /\ Quiet) =>
        \A c \in Cols :
            (c + 1 \in DOMAIN schema /\ c \notin SeqSet(pendingValidation)) =>
                ErrSet(errors, c) = validate_column(engRows, c, schema[c + 1].detected_type)

(***************************************************************************)
(* C28.  Order of the chunks of a chunked job.                             *)
(***************************************************************************)
\* The step handles START_VALIDATION / makes a validate_chunk call / makes
\* a find_replace_range call.
StartsPass ==
    /\ WorkerHead("START_VALIDATION")
    /\ toWorker' = Tail(toWorker)
ChunkCall == StartsPass \/ chunkCalls' # chunkCalls
ReplaceCall == findReplace'.calls # findReplace.calls
\* The find_replace_range calls made for the job `id`, in the order made.
RECURSIVE JobCalls(_, _)
JobCalls(fc, id) ==
    IF fc = << >> THEN << >>
    ELSE LET n == Len(fc)
             rest == JobCalls(SubSeq(fc, 1, n - 1), id)
         IN  IF fc[n].id = id THEN Append(rest, fc[n]) ELSE rest
RECURSIVE SumCounts(_)
SumCounts(fc) ==
    IF fc = << >> THEN 0 ELSE fc[1].count + SumCounts(Tail(fc))

\* A step makes at most one validate_chunk call: for offset 0 when
\* START_VALIDATION is handled, and otherwise for the offset the job stands
\* at, which is the offset after the last call that returned.  A call that
\* returns has its errors, if any, posted in the same step, moves the job
\* one chunk on and sets at most one timer; a call that throws leaves the
\* job where it stood and sets no timer.
FullPassInOrder ==
    ChunkCall =>
        LET n == Len(chunkCalls)
            offset == IF StartsPass THEN 0 ELSE validationJob.currentStart
            errs == ErrorsOfFlatList(validate_chunk(engRows, engSchema, offset, chunkSize))
        IN  /\ chunkCalls' = (IF StartsPass THEN << >> ELSE chunkCalls)
                                 \o << << offset, chunkSize >> >>
            /\ ~StartsPass =>
                  /\ validationJob.active /\ n > 0
                  /\ offset \in {chunkCalls[n][1], chunkCalls[n][1] + chunkSize}
            /\ IF faults' < faults
               THEN /\ validationJob'.active
                    /\ validationJob'.currentStart = offset
                    /\ timers' <= timers
               ELSE /\ DOMAIN errs # {} =>
                        /\ Len(toClient') > Len(toClient)
                        /\ toClient'[Len(toClient) + 1]
                              = Reply("VALIDATION_UPDATE", NoId, errs)
                    /\ validationJob'.active =>
                        validationJob'.currentStart = offset + chunkSize
                    /\ timers' <= timers + 1

\* A step makes at most one find_replace_range call; the k-th call of a job
\* is for offset (k-1)*CHUNK and is made with the counts of the job's
\* calls before it accumulated; the job then waits for its timer with the
\* call's own count accumulated.
FindReplaceInOrder ==
    ReplaceCall =>
        LET n == Len(findReplace.calls)
            call == findReplace'.calls[n + 1]
            before == JobCalls(findReplace.calls, call.id)
            waits == findReplace'.jobs[Len(findReplace'.jobs)]
        IN  /\ findReplace'.calls = Append(findReplace.calls, call)
            /\ call.start = CHUNK * Len(before)
            /\ call.totalReplaced = SumCounts(before)
            /\ Len(findReplace'.jobs) > 0
            /\ waits.id = call.id
            /\ waits.start = call.start + CHUNK
            /\ waits.totalReplaced = call.totalReplaced + call.count
            /\ \A i \in 1 .. (Len(findReplace'.jobs) - 1) :
                  findReplace'.jobs[i].id # call.id

\* C28: within one full pass and within one find-and-replace job the
\* chunks are processed in increasing offset order, a chunk is started only
\* after the chunk before it has been folded in (its error update posted,
\* its replaced-cell count accumulated), and the next chunk is scheduled by
\* a timer, never run in the same step.
C28_ChunksInOrder == [][FullPassInOrder /\ FindReplaceInOrder]_vars
\* A job that has made its second call, with cells replaced by its first.
C28_Witness ==
    /\ \E i \in DOMAIN findReplace.calls :
          findReplace.calls[i].start = CHUNK /\ findReplace.calls[i].totalReplaced > 0
    /\ \E i \in DOMAIN chunkCalls : chunkCalls[i][1] = chunkSize

(***************************************************************************)
(* C29.  What a mutation that succeeds leaves behind, and in which order.  *)
(***************************************************************************)
\* The mutation in slot t returns normally in this step, having run to its
\* end.
MutationCompletes(t) == tasks[t].op \in Mutations /\ SettlesOk(t)
\* The step that completes the mutation in slot t is the one in which the
\* validate-column call it dispatched for its column settles: the engine
\* mutation was acknowledged in an earlier step.
ValidatedBeforeCompleting(t) ==
    /\ tasks[t].pc = "validate"
    /\ tasks[t].cur = MutationCol(tasks[t])
    /\ Head(toClient).type = "VALIDATE_COLUMN_COMPLETE"

\* C29: when a successful applyCorrection, applySuggestion or updateCell on
\* column c completes, c is not in the Pending Validation Set, and its
\* effects came in this order: the engine mutation was acknowledged, then
\* validate-column for c was dispatched and settled, then c left the
\* Pending set, the row cache was invalidated and the Data Version Token
\* went up by one.
C29_MutationEffectsInOrder ==
    [][\A t \in TaskIds : MutationCompletes(t) =>
          /\ MutationCol(tasks[t]) \notin SeqSet(pendingValidation')
          /\ ValidatedBeforeCompleting(t)
          /\ IF tasks[t].op = "updateCell"
             THEN tasks[t].a \notin DOMAIN rowCache'
             ELSE rowCache' = EmptyMap
          /\ dataVersion' = dataVersion + 1
      ]_vars
\* The part of it that holds for applyCorrection and applySuggestion when
\* their validation is not turned away: the column leaves the Pending set,
\* the whole cache is dropped and the token goes up in the step in which
\* the validate-column call settles.
FixCompletesInOrder ==
    [][\A t \in TaskIds :
          (MutationCompletes(t) /\ tasks[t].op # "updateCell" /\ tasks[t].pc = "validate") =>
              /\ ValidatedBeforeCompleting(t)
              /\ MutationCol(tasks[t]) \notin SeqSet(pendingValidation')
              /\ rowCache' = EmptyMap
              /\ dataVersion' = dataVersion + 1
      ]_vars
\* updateCell never takes its column out of the Pending set.
UpdateCellKeepsPending ==
    [][\A t \in TaskIds :
          (MutationCompletes(t) /\ tasks[t].op = "updateCell") =>
              pendingValidation' = pendingValidation
      ]_vars

(***************************************************************************)
(* C30.  Readiness.                                                        *)
(***************************************************************************)
\* INIT is the first message the worker is sent: until the worker has
\* handled a message INIT is at the head of the channel, and it is nowhere
\* else.
InitIsFirst ==
    /\ ~isWasmReady => (toWorker # << >> /\ Head(toWorker).type = "INIT")
    /\ \A i \in DOMAIN toWorker : toWorker[i].type = "INIT" => i = 1
\* isReady changes only from false to true, in the step that takes
\* INIT_COMPLETE off the channel.
ReadyOnlyOnSignal ==
    isReady' # isReady =>
        /\ ~isReady
        /\ toClient # << >>
        /\ Head(toClient).type = "INIT_COMPLETE"
        /\ toClient' = Tail(toClient)
\* A step that posts a message to the worker is taken with isReady set.
NoDispatchBeforeReady == Len(toWorker') > Len(toWorker) => isReady

HookGatesOnReady == [][NoDispatchBeforeReady]_vars

(***************************************************************************)
(* C31.  The merge of a per-chunk error update.                            *)
(***************************************************************************)
\* The step delivers a VALIDATION_UPDATE to the client.
DeliversUpdate ==
    /\ toClient # << >>
    /\ Head(toClient).type = "VALIDATION_UPDATE"
    /\ toClient' = Tail(toClient)

\* C31: handling a per-chunk error update of the full pass only adds (row,
\* col) entries to the Error Map: every entry present before is present
\* after, and the columns the update does not name keep their entries.
C31_UpdateOnlyAdds ==
    [][DeliversUpdate =>
        LET payload == Head(toClient).payload IN
        /\ \A c \in DOMAIN errors :
              c \in DOMAIN errors' /\ errors[c] \subseteq errors'[c]
        /\ \A c \in DOMAIN payload :
              errors'[c] = ErrSet(errors, c) \cup payload[c]
        /\ \A c \in Cols \ DOMAIN payload :
              /\ (c \in DOMAIN errors') = (c \in DOMAIN errors)
              /\ ErrSet(errors', c) = ErrSet(errors, c)
      ]_vars
\* Mid-pass, the second chunk's update has been added to the first one's.
C31_Witness ==
    /\ stage = "PROCESSING"
    /\ 0 \in DOMAIN errors
    /\ errors[0] = {0, 2}

(***************************************************************************)
(* C32.  What a type relabeling leaves alone; who empties the row cache.   *)
(***************************************************************************)
\* The step is a call of updateColumnType / of loadFile.
UpdateColumnTypeCall == calls' # calls /\ lastOp'.name = "updateColumnType"
LoadFileCall == calls' # calls /\ lastOp'.name = "loadFile"
\* The step removes a row from the row cache.
CacheLosesRow == \E i \in DOMAIN rowCache : i \notin DOMAIN rowCache'

\* C32: updateColumnType posts nothing to the worker and leaves the row
\* cache and the Data Version Token as they were, in every stage; rows
\* leave the row cache only in a call of loadFile and in the completion of
\* a content-changing mutation, never in a relabeling or a validation pass.
C32_RelabelingKeepsCache ==
    [][/\ UpdateColumnTypeCall =>
            /\ toWorker' = toWorker
            /\ rowCache' = rowCache
            /\ dataVersion' = dataVersion
       /\ CacheLosesRow =>
            \/ LoadFileCall
            \/ \E t \in TaskIds : MutationCompletes(t)
      ]_vars
\* A column has just been relabeled while rows are cached.
C32_Witness ==
    /\ lastOp.name = "updateColumnType"
    /\ rowCache # EmptyMap
    /\ stage = "STUDIO"

(***************************************************************************)
(* C33.  A find-and-replace job from its request to its terminal message.  *)
(***************************************************************************)
JobIds(js) == {js[i].id : i \in DOMAIN js}
\* The step handles FIND_REPLACE_ALL / runs doChunk, from the handler or
\* from a timer.
StartsJob ==
    /\ WorkerHead("FIND_REPLACE_ALL")
    /\ toWorker' = Tail(toWorker)
DoChunkStep == StartsJob \/ findReplace' # findReplace
\* The message ends the job k.
JobTerminal(m, k) ==
    \/ m.type = "FIND_REPLACE_ALL_COMPLETE" /\ m.id = k
    \/ m.type = "ERROR" /\ m.payload.id = k
\* The message ends some find-and-replace job.
AnyJobTerminal(m) ==
    \/ m.type = "FIND_REPLACE_ALL_COMPLETE"
    \/ m.type = "ERROR" /\ m.payload.id.k = "findreplace"

\* C33: a find-and-replace job over N rows with chunk size C calls
\* find_replace_range at the offsets 0, C, 2C, ... below N, in order, and
\* ends with exactly one terminal message that carries its id: a completion
\* whose count is the sum of the counts of its calls, or an error, after
\* which the job runs no further chunk; for N = 0 it completes with count 0
\* without a call.  Step by step: a run of doChunk for the job k, whose
\* calls so far were for 0, C, ..., (n-1)C, completes the job when nC >= N,
\* fails it when the call throws, and else records the call for nC and
\* leaves the job waiting for its timer; a completed or failed job waits no
\* more; and no other step posts a terminal message of a job.
C33_JobRunsToOneTerminal ==
    [][IF DoChunkStep
       THEN LET k == IF StartsJob THEN Head(toWorker).id ELSE Head(findReplace.jobs).id
                before == JobCalls(findReplace.calls, k)
                n == Len(before)
            IN  /\ \A i \in 1 .. n : before[i].start = (i - 1) * CHUNK
                /\ StartsJob => (n = 0 /\ k \notin JobIds(findReplace.jobs))
                /\ IF n * CHUNK >= totalRows
                   THEN /\ toClient' = Append(toClient,
                               Reply("FIND_REPLACE_ALL_COMPLETE", k, SumCounts(before)))
                        /\ findReplace'.calls = findReplace.calls
                        /\ k \notin JobIds(findReplace'.jobs)
                   ELSE IF faults' < faults
                   THEN /\ toClient' = Append(toClient, ErrorWithId(k))
                        /\ findReplace'.calls = findReplace.calls
                        /\ k \notin JobIds(findReplace'.jobs)
                   ELSE /\ toClient' = toClient
                        /\ JobCalls(findReplace'.calls, k)
                             = Append(before, findReplace'.calls[Len(findReplace'.calls)])
                        /\ findReplace'.calls[Len(findReplace'.calls)].start = n * CHUNK
                        /\ Len(findReplace'.calls) = Len(findReplace.calls) + 1
                        /\ k \in JobIds(findReplace'.jobs)
                /\ JobIds(findReplace'.jobs) \ {k} = JobIds(findReplace.jobs) \ {k}
       ELSE Len(toClient') > Len(toClient) =>
                ~AnyJobTerminal(toClient'[Len(toClient')])
      ]_vars
\* A job over no rows has completed with count 0 without a call.
NoRowsJobCompleted ==
    /\ totalRows = 0
    /\ findReplace.calls = << >>
    /\ \E i \in DOMAIN toClient :
          toClient[i].type = "FIND_REPLACE_ALL_COMPLETE" /\ toClient[i].payload = 0
\* A job over the three rows has completed with the sum of its two calls,
\* the second of which replaced a cell.
C33_Witness ==
    \E i \in DOMAIN toClient :
        /\ toClient[i].type = "FIND_REPLACE_ALL_COMPLETE"
        /\ LET mine == JobCalls(findReplace.calls, toClient[i].id)
           IN  /\ Len(mine) = 2
               /\ mine[2].count > 0
               /\ toClient[i].payload = mine[1].count + mine[2].count

(***************************************************************************)
(* C34.  A row fetch made while the full pass runs.                        *)
(***************************************************************************)
\* A GET_ROWS request waits in the worker's queue / a response for start
\* offset s has been posted.
FetchQueued == \E i \in DOMAIN toWorker : toWorker[i].type = "GET_ROWS"
FetchAnswered(s) ==
    \E i \in DOMAIN toClient :
        toClient[i].type = "GET_ROWS_COMPLETE" /\ toClient[i].id.a = s
\* The step handles GET_ROWS.
HandlesGetRows == WorkerHead("GET_ROWS") /\ toWorker' = Tail(toWorker)

\* C34: under fair scheduling a getRows request that is queued, also while
\* a full pass runs, is eventually answered, and its response does not wait
\* for the completion signal.  The queue is FIFO and a request leaves it
\* only by being handled, so: queued requests are eventually all taken up;
\* the worker can take a request up as soon as it heads the queue, whether
\* or not a validation job is active between two chunks; and handling it
\* posts the response in the same step and leaves the job and its timers
\* alone.
C34_FetchNotStarved ==
    /\ FetchQueued ~> ~FetchQueued
    /\ [](WorkerHead("GET_ROWS") => ENABLED WorkerGetRows)
    /\ [][HandlesGetRows =>
            /\ Len(toClient') = Len(toClient) + 1
            /\ toClient'[Len(toClient')].type = "GET_ROWS_COMPLETE"
            /\ toClient'[Len(toClient')].id = Head(toWorker).id
            /\ validationJob' = validationJob
            /\ timers' = timers
         ]_vars
\* A response to getRows is on its way to the client while the pass still
\* has a chunk to go and has emitted no completion signal.
C34_Witness ==
    /\ \E s \in RowIdx : FetchAnswered(s)
    /\ validationJob.active
    /\ timers > 0
    /\ Completions(toClient) = 0
    /\ stage = "PROCESSING"

(***************************************************************************)
(* C35.  A started full pass runs to its end.                              *)
(***************************************************************************)
\* A full pass has been started: its request is queued or its job is active.
PassStarted ==
    \/ \E i \in DOMAIN toWorker : toWorker[i].type = "START_VALIDATION"
    \/ validationJob.active
\* The step is a timer callback of the full pass.
PassTimerStep == timers > 0 /\ timers' # timers /\ toWorker' = toWorker

\* C35: under fair scheduling and with no chunk failure a started full pass
\* eventually emits its completion signal and the stage eventually becomes
\* Studio; and nothing cancels a started pass or a started find-and-replace
\* job: the validation job and its timers change only where
\* START_VALIDATION is handled and in the pass's own timer callbacks, a
\* find-and-replace job only in its own doChunk runs, and an active job
\* ends only by emitting the completion signal.
C35_PassRunsToCompletion ==
    /\ PassStarted ~> (passSignals = 1 /\ stage = "STUDIO")
    /\ [][/\ (validationJob' # validationJob \/ timers' # timers) =>
                (StartsPass \/ PassTimerStep)
          /\ (validationJob.active /\ ~validationJob'.active) => EmitsCompletion
          /\ findReplace' # findReplace => DoChunkStep
          /\ ClientStep => UNCHANGED << validationJob, timers, findReplace >>
         ]_vars
\* The pass has completed after a client call was made while it ran.
C35_Witness ==
    /\ stage = "STUDIO"
    /\ passSignals = 1
    /\ Len(chunkCalls) = 2
    /\ lastOp.name = "receive"
    /\ \E e \in lastOp.ended : e.op = "fetchRows"

\* A pass started over no rows emits its completion signal in the step that
\* handles START_VALIDATION.
EmptyPassCompletesAtOnce ==
    [][(StartsPass /\ totalRows = 0 /\ faults' = faults) =>
          (EmitsCompletion /\ ~validationJob'.active /\ timers' = timers)]_vars
\* Such a pass has been started.
EmptyPassStarted == totalRows = 0 /\ passSignals = 1

(***************************************************************************)
(* C36.  The release of the single-flight latch.                           *)
(***************************************************************************)
\* A validate-column call is on its way: its request is queued at the
\* worker or its response is on the way back.
ValidateCallInFlight == \E k \in InFlight : k.k = "val"

\* C36: the latch is held only while a targeted pass is executing, that is,
\* while one of its validate-column calls is on the way whose settling lets
\* the pass go on to its finally block; it is never left held with nothing
\* to release it, also when a validate-column call fails in the engine.
C36_LatchHeldOnlyWhileExecuting == isBatchValidating => ValidateCallInFlight
\* A latch held with no call on the way is held for ever.
StuckLatchStaysHeld ==
    [][(isBatchValidating /\ ~ValidateCallInFlight) =>
          (isBatchValidating' /\ ~ValidateCallInFlight')]_vars

(***************************************************************************)
(* C37.  Columns of a targeted pass that yield no result.                  *)
(***************************************************************************)
\* The last validate-column call of the pass of slot t settles in this
\* step, resolved or rejected.
PassEnds(t) ==
    /\ tasks[t].pc = "validate" /\ tasks'[t].pc # "validate"
    /\ toClient # << >> /\ toClient' = Tail(toClient)
\* The call that settles in this step resolved with invalid rows.
ResolvedWithRows ==
    Head(toClient).type = "VALIDATE_COLUMN_COMPLETE" /\ Head(toClient).payload # {}
\* The mutation of slot t is acknowledged with the latch free and returns in
\* the same step: its targeted pass found no schema entry for its column
\* and made no call.
PassWithoutCalls(t) ==
    /\ tasks[t].op \in Mutations /\ tasks[t].pc = "mutate"
    /\ ~isBatchValidating
    /\ SettlesOk(t)

UnknownColumnPassEnded ==
    /\ \E e \in lastOp.ended : e.op \in Mutations /\ e.outcome = "ok"
    /\ schema = << >>
    /\ errors = EmptyMap
    /\ \A c \in Cols : vcSent[c] = 0

(***************************************************************************)
(* C38.  What a targeted pass leaves alone.                                *)
(***************************************************************************)
\* A validate-column call of the pass of slot t settles in this step.
PassStep(t) ==
    /\ tasks[t].pc = "validate" /\ tasks'[t] # tasks[t]
    /\ toClient # << >> /\ toClient' = Tail(toClient)
\* The step is a call of runBatchValidation.
RunBatchCall == calls' # calls /\ lastOp'.name = "runBatchValidation"
\* The entry of column c is the same before and after the step.
SameEntry(c) ==
    /\ (c \in DOMAIN errors') = (c \in DOMAIN errors)
    /\ ErrSet(errors', c) = ErrSet(errors, c)

\* C38: a targeted pass changes the Error Map only at the requested column
\* indices, and only when it ends; the schema, the baseline and the stage
\* are unchanged by each of its steps, and so are the row cache and the
\* Data Version Token, but for what the mutation that requested the pass
\* does to them once the pass has returned.
C38_PassTouchesOnlyItsColumns ==
    [][/\ \A t \in TaskIds : PassStep(t) =>
             /\ \A c \in Cols \ SeqSet(tasks[t].colIndices) : SameEntry(c)
             /\ tasks'[t].pc = "validate" => errors' = errors
             /\ schema' = schema /\ initialSchema' = initialSchema /\ stage' = stage
             /\ (tasks[t].op = "runBatchValidation" \/ tasks'[t].pc = "validate") =>
                   (rowCache' = rowCache /\ dataVersion' = dataVersion)
       /\ RunBatchCall =>
             /\ \A c \in Cols \ SeqSet(pendingValidation) : SameEntry(c)
             /\ schema' = schema /\ initialSchema' = initialSchema /\ stage' = stage
             /\ rowCache' = rowCache /\ dataVersion' = dataVersion
      ]_vars
\* A pass over column 0 has ended and the entry of column 1 is still there.
C38_Witness ==
    /\ lastOp.name = "receive"
    /\ \E e \in lastOp.ended : e.op = "applyCorrection" /\ e.a = 0 /\ e.outcome = "ok"
    /\ vcSent = [c \in Cols |-> IF c = 0 THEN 1 ELSE 0]
    /\ 1 \in DOMAIN errors
    /\ errors[1] = {1}

(***************************************************************************)
(* C39.  The Pending Validation Set before Studio.                         *)
(***************************************************************************)
BeforeStudio == stage \in {"SCHEMA", "INGESTION", "PROCESSING"}

EditsBeforeStudioKeepPending ==
    [][/\ (UpdateColumnTypeCall /\ BeforeStudio) =>
             pendingValidation' = pendingValidation
       /\ LoadFileCall => pendingValidation' = << >>
      ]_vars

(***************************************************************************)
(* C40.  isLoadingFile and the state of the hook around a load.            *)
(***************************************************************************)
LoadOutstanding == \E t \in TaskIds : tasks[t].op = "loadFile"
\* The loadFile call of slot t has posted LOAD_FILE and listens for the reply.
LoadListening(t) == tasks[t].op = "loadFile" /\ tasks[t].pc = "load"
LoadSettles(t) == tasks[t].op = "loadFile" /\ tasks'[t].op # "loadFile"
LoadSettlesAs(t, outcome) ==
    /\ LoadSettles(t)
    /\ \E e \in lastOp'.ended : e.op = "loadFile" /\ e.outcome = outcome
Delivers(type) ==
    /\ toClient # << >>
    /\ Head(toClient).type = type
    /\ toClient' = Tail(toClient)
HookEmptied ==
    /\ schema = << >> /\ rowCount = 0 /\ errors = EmptyMap
    /\ rowCache = EmptyMap /\ pendingValidation = << >>

LoadSucceeded ==
    /\ lastOp.name = "receive"
    /\ \E e \in lastOp.ended : e.op = "loadFile" /\ e.outcome = "ok"
    /\ ~isLoadingFile
    /\ rowCount = totalRows /\ rowCount > 0 /\ schema = engSchema

====
